---------------------------- MODULE Spec2Model ----------------------------
(***************************************************************************)
(* Model of the precise-time kernel of TSTools (python/lib/convtime.py):   *)
(* the two-part Modified Julian Day (MJD2), the calendar algorithms, the   *)
(* format adapters of convtime, PreciseTime/DeltaTime and format_time.     *)
(*                                                                         *)
(* Numbers.  The code computes with Python floats.  The model computes in  *)
(* exact fixed-point arithmetic: a real number of days is a record         *)
(* [d, s, u] = d days + s seconds + u sub-second units, and a real number  *)
(* of seconds is a record [s, u], both in floor form (0 <= s < 86400 for   *)
(* days, 0 <= u < SubUnits), so every value has exactly one                *)
(* representation.  The one place where the IEEE-754 result is modelled    *)
(* bit-exactly is the comparison `ss == 60` of mjd2_to_cal (FloatProd60).  *)
(***************************************************************************)
EXTENDS Integers, Sequences, FiniteSets, TLC

VARIABLES op, arg, ret, pt, env

vars == <<op, arg, ret, pt, env>>

(***************************************************************************)
(* op is the position of the program (the last operation completed), arg   *)
(* the inputs drawn for the behaviour, ret the values returned, pt the     *)
(* state of the PreciseTime objects.  env is the local timezone of the     *)
(* process, as the offset of local time from UTC in seconds; only          *)
(* datetime.fromtimestamp and datetime.timestamp read it.                  *)
(***************************************************************************)
\* a process whose local time is UTC
UTC == 0

(***************************************************************************)
(* Bounds of the model.                                                    *)
(***************************************************************************)
\* decimal digits of a second that the model resolves
SubDigits == 6
\* largest precision digit count k of an aprx = 10^-k / of a template token
MaxPrec == 5
\* days taken on each side of a pivot Julian Day
JdSpan == 12
\* largest number of tokens of a template
MaxTokens == 2
\* largest distance in days a PreciseTime may drift from its construction
MaxDrift == 3

RECURSIVE Pow10(_)
Pow10(k) == IF k = 0 THEN 1 ELSE 10 * Pow10(k - 1)

SubUnits == Pow10(SubDigits)

SecPerDay == 86400

NoValue == <<>>

\* the element of a one-element set: Only({e : x \in {v}}) is e with x bound
\* to the value v, as a local variable assigned once
Only(S) == CHOOSE x \in S : TRUE

(***************************************************************************)
(* Exact arithmetic on reals in floor form.                                *)
(***************************************************************************)
\* math.trunc(a / b) for integers a and b > 0
TruncDiv(a, b) == IF a >= 0 THEN a \div b ELSE -((-a) \div b)

\* a real number of seconds s + u/SubUnits, brought to floor form
SNorm(s, u) == [s |-> s + (u \div SubUnits), u |-> u % SubUnits]

\* a real number of days d + (s + u/SubUnits)/86400, brought to floor form
DNorm(d, s, u) ==
  [d |-> d + ((s + (u \div SubUnits)) \div SecPerDay),
   s |-> (s + (u \div SubUnits)) % SecPerDay, u |-> u % SubUnits]

DInt(n) == [d |-> n, s |-> 0, u |-> 0]
DAdd(x, y) == DNorm(x.d + y.d, x.s + y.s, x.u + y.u)
DSub(x, y) == DNorm(x.d - y.d, x.s - y.s, x.u - y.u)
DIsInt(x) == x.s = 0 /\ x.u = 0
DLess(x, y) ==
  \/ x.d < y.d
  \/ x.d = y.d /\ x.s < y.s
  \/ x.d = y.d /\ x.s = y.s /\ x.u < y.u

\* int(x) of Python for a real number of days: truncation toward zero
DTrunc(x) == IF x.d >= 0 \/ DIsInt(x) THEN x.d ELSE x.d + 1

\* math.modf(x): the fractional and the integer part, both with the sign of x
Modf(x) == [int |-> DTrunc(x), frac |-> DSub(x, DInt(DTrunc(x)))]

SInt(n) == [s |-> n, u |-> 0]
SAdd(x, y) == SNorm(x.s + y.s, x.u + y.u)
STrunc(x) == IF x.s >= 0 \/ x.u = 0 THEN x.s ELSE x.s + 1
SLess(x, y) == x.s < y.s \/ (x.s = y.s /\ x.u < y.u)

\* x seconds expressed in days (x / 86400.)
SecToDays(x) == DNorm(0, x.s, x.u)

\* x days expressed in seconds (x * 86400.)
DaysToSec(x) == [s |-> x.d * SecPerDay + x.s, u |-> x.u]

(***************************************************************************)
(* mjd_to_jd / jd_to_mjd                                                   *)
(***************************************************************************)
\* 2400000.5
JdMjdOffset == [d |-> 2400000, s |-> 43200, u |-> 0]

mjd_to_jd(mjd) == DAdd(mjd, JdMjdOffset)

jd_to_mjd(jd) == DSub(jd, JdMjdOffset)

(***************************************************************************)
(* date_to_jd(year, month, day): day is a real number of days.             *)
(***************************************************************************)
\* the test of date_to_jd for "before the start of the Gregorian calendar"
BeforeGregorianMut(year, month, day) ==
  \/ year < 1582
  \/ year = 1582 /\ month < 10
  \/ year = 1582 /\ month = 10 /\ DLess(day, DInt(16))

BeforeGregorian(year, month, day) ==
  \/ year < 1582
  \/ year = 1582 /\ month < 10
  \/ year = 1582 /\ month = 10 /\ DLess(day, DInt(15))

\* C without the 0.75 that is subtracted for a negative yearp
date_to_jdMut(year, month, day) ==
  LET B(A) == IF BeforeGregorian(year, month, day) THEN 0 ELSE 2 - A + TruncDiv(A, 4)
      C(yearp) == TruncDiv(36525 * yearp, 100)
      D(monthp) == TruncDiv(306001 * (monthp + 1), 10000)
      BCD(yearp, monthp) == B(TruncDiv(yearp, 100)) + C(yearp) + D(monthp)
  IN  DAdd(DAdd(DInt(BCD(IF month = 1 \/ month = 2 THEN year - 1 ELSE year,
                         IF month = 1 \/ month = 2 THEN month + 12 ELSE month)),
                day),
           [d |-> 1720994, s |-> 43200, u |-> 0])

date_to_jd(year, month, day) ==
  LET B(A) == IF BeforeGregorian(year, month, day) THEN 0 ELSE 2 - A + TruncDiv(A, 4)
      C(yearp) ==
        IF yearp < 0
          THEN TruncDiv(36525 * yearp - 75, 100)
          ELSE TruncDiv(36525 * yearp, 100)
      D(monthp) == TruncDiv(306001 * (monthp + 1), 10000)
      BCD(yearp, monthp) == B(TruncDiv(yearp, 100)) + C(yearp) + D(monthp)
  IN  DAdd(DAdd(DInt(BCD(IF month = 1 \/ month = 2 THEN year - 1 ELSE year,
                         IF month = 1 \/ month = 2 THEN month + 12 ELSE month)),
                day),
           [d |-> 1720994, s |-> 43200, u |-> 0])

(***************************************************************************)
(* jd_to_date(jd): returns year, month and the real day of the month.      *)
(***************************************************************************)
\* 0.5 day
HalfDay == [d |-> 0, s |-> 43200, u |-> 0]

\* the test of jd_to_date for its Gregorian branch
GregorianBranchMut(I) == I > 2299161

GregorianBranch(I) == I > 2299160

jd_to_date(jd) ==
  LET StepA(FI) ==
        [I |-> FI.int, F |-> FI.frac, A |-> TruncDiv(100 * FI.int - 186721625, 3652425)]
      StepC(t) ==
        [F |-> t.F,
         C |-> (IF GregorianBranch(t.I) THEN t.I + 1 + t.A - TruncDiv(t.A, 4) ELSE t.I) + 1524]
      StepD(t) == [F |-> t.F, C |-> t.C, D |-> TruncDiv(100 * t.C - 12210, 36525)]
      StepE(t) == [F |-> t.F, C |-> t.C, D |-> t.D, E |-> TruncDiv(36525 * t.D, 100)]
      StepG(t) ==
        [F |-> t.F, C |-> t.C, D |-> t.D, E |-> t.E,
         G |-> TruncDiv(10000 * (t.C - t.E), 306001)]
      Ret(t, month) ==
        [year |-> IF month > 2 THEN t.D - 4716 ELSE t.D - 4715, month |-> month,
         day |-> DAdd(DInt(t.C - t.E - TruncDiv(306001 * t.G, 10000)), t.F)]
      Month(t) == Ret(t, IF t.G < 14 THEN t.G - 1 ELSE t.G - 13)
  IN  Month(StepG(StepE(StepD(StepC(StepA(Modf(DAdd(jd, HalfDay))))))))

(***************************************************************************)
(* MJD2 core.  An MJD2 is [day, frac]: day an integer, frac a real number  *)
(* of days (any sign and size unless normalized).                          *)
(***************************************************************************)
Mjd2(day, frac) == [day |-> day, frac |-> frac]

\* 0 <= frac < 1
Normalized(mjd2) == mjd2.frac.d = 0

\* tmp of clean_mjd2: int(frac) if frac >= 0, int(frac) - 1 otherwise
CleanCarry(frac) == IF frac.d >= 0 THEN DTrunc(frac) ELSE DTrunc(frac) - 1

clean_mjd2(mjd2) ==
  Only({Mjd2(mjd2.day + tmp, DSub(mjd2.frac, DInt(tmp))) : tmp \in {CleanCarry(mjd2.frac)}})

add_mjd2(mjd2, day) == clean_mjd2(Mjd2(mjd2.day, DAdd(mjd2.frac, day)))

\* diff_mjd2 without the difference of the day fractions
diff_mjd2Mut(mjd21, mjd22) == DInt(mjd21.day - mjd22.day)

diff_mjd2(mjd21, mjd22) ==
  DAdd(DInt(mjd21.day - mjd22.day), DSub(mjd21.frac, mjd22.frac))

(***************************************************************************)
(* hmsm_to_days / days_to_hmsm.  micro is the real number of microseconds, *)
(* kept as a signed count of sub-second units (micro / 1e6 seconds).       *)
(***************************************************************************)
\* hmsm_to_days adding the minutes as seconds
hmsm_to_daysMut(hour, min, sec, micro) ==
  SecToDays(SNorm(hour * 3600 + min + sec, micro))

hmsm_to_days(hour, min, sec, micro) ==
  SecToDays(SNorm(hour * 3600 + min * 60 + sec, micro))

days_to_hmsm(days) ==
  LET Pos(t) ==
        [hour |-> t.s \div 3600, min |-> (t.s % 3600) \div 60, sec |-> t.s % 60,
         micro |-> t.u]
      Neg(m) ==
        [hour |-> -(m.s \div 3600), min |-> -((m.s % 3600) \div 60), sec |-> -(m.s % 60),
         micro |-> -m.u]
      Split(t) == IF t.s >= 0 THEN Pos(t) ELSE Neg(SNorm(-t.s, -t.u))
  IN  Split(DaysToSec(days))

(***************************************************************************)
(* Input adapters of convtime.                                             *)
(***************************************************************************)
\* MJD of the GPS epoch 1980-01-06
mjd0 == 44244

mjd_to_mjd2(mjd) == Only({Mjd2(fi.int, fi.frac) : fi \in {Modf(mjd)}})

mjd3_to_mjd2(mjd3) == Mjd2(mjd3.day, SecToDays(mjd3.sec))

Cal(y, m, d, hh, mn, ss) ==
  [year |-> y, month |-> m, day |-> d, hour |-> hh, min |-> mn, sec |-> ss]

cal_to_mjd2(cal) ==
  Mjd2(DTrunc(jd_to_mjd(date_to_jd(cal.year, cal.month, cal.day))),
       hmsm_to_days(cal.hour, cal.min, STrunc(cal.sec),
                    (cal.sec.s - STrunc(cal.sec)) * SubUnits + cal.sec.u))

jd_to_mjd2(jd) ==
  Only({Mjd2(DTrunc(mjd), DSub(mjd, DInt(DTrunc(mjd)))) : mjd \in {jd_to_mjd(jd)}})

gps_to_mjd2(gps) ==
  LET Ret(tmp1, tmp2, days) == Mjd2(tmp1 + mjd0 + tmp2, DSub(days, DInt(tmp2)))
  IN  Only({Ret(gps.week * 7, DTrunc(days), days) : days \in {SecToDays(gps.sec)}})

gps2_to_mjd2(gps2) ==
  Mjd2(gps_to_mjd2([week |-> gps2.week, sec |-> SInt(0)]).day + gps2.dow,
       hmsm_to_days(gps2.hour, gps2.min, STrunc(gps2.sec),
                    (gps2.sec.s - STrunc(gps2.sec)) * SubUnits + gps2.sec.u))

doy_to_mjd2(doy) ==
  Only({clean_mjd2(Mjd2(mjd2.day + doy.ddd - 1, mjd2.frac)) :
          mjd2 \in {cal_to_mjd2(Cal(doy.year, 1, DInt(1), doy.hour, doy.min, doy.sec))}})

(***************************************************************************)
(* The IEEE-754 double result of round(ss/aprx)*aprx when the rounded      *)
(* count n is 60 * 10^k, i.e. when the exact product is 60.  aprx is the   *)
(* double nearest to 10^-k, m * 2^-s with 2^52 <= m < 2^53, so the double  *)
(* product is fl(60 * (1 + rho / 2^s)) with rho = m * 10^k - 2^s, and it   *)
(* is the double 60.0 iff 60 * |rho| / 2^s <= 2^-48 (half an ulp of 60).   *)
(***************************************************************************)
\* 2^n for n in 0..30
Pow2(n) ==
  <<1, 2, 4, 8, 16, 32, 64, 128, 256, 512, 1024, 2048, 4096, 8192, 16384, 32768,
    65536, 131072, 262144, 524288, 1048576, 2097152, 4194304, 8388608, 16777216,
    33554432, 67108864, 134217728, 268435456, 536870912, 1073741824>>[n + 1]

\* 2^n mod q, four binary digits at a time
RECURSIVE Pow2Mod(_, _)
Pow2Mod(n, q) == IF n < 4 THEN Pow2(n) % q ELSE (16 * Pow2Mod(n - 4, q)) % q

\* the least n >= L with 2^n >= t
CeilLog2(t, L) == CHOOSE n \in L..30 : Pow2(n) >= t /\ (n = L \/ Pow2(n - 1) < t)

\* "eq", "gt" or "lt": fl(60 * 10^k * fl(10^-k)) compared with 60.0
FloatProd60(k) ==
  LET Rho(t, r) == IF 2 * r < t THEN -r ELSE t - r
      Cmp(L, rho) ==
        IF 15 * (IF rho < 0 THEN -rho ELSE rho) <= 4 * Pow2(L) THEN "eq"
        ELSE IF rho > 0 THEN "gt" ELSE "lt"
      WithL(t, L) == Cmp(L, Rho(t, Pow2Mod(52 + L, t)))
      WithT(t) == WithL(t, CeilLog2(t, 0))
  IN  WithT(Pow10(k))

(***************************************************************************)
(* Output adapters of convtime.  aprx is the digit count k of the rounding *)
(* increment 10^-k seconds, or NoAprx for the default 99 (no rounding).    *)
(***************************************************************************)
NoAprx == 99

\* round(x) of Python for x = n + r/q, 0 <= r < q: nearest, ties to even
RoundHalfEven(n, r, q) ==
  IF 2 * r < q THEN n
  ELSE IF 2 * r > q THEN n + 1
  ELSE IF n % 2 = 0 THEN n ELSE n + 1

\* The modelled seconds are multiples of 10^-SubDigits, so for k >= SubDigits
\* round(ss / aprx) is exact, and the count is kept in units of
\* 10^-CountDigits(k) seconds.
CountDigits(k) == IF k >= SubDigits THEN SubDigits ELSE k

\* round(ss / aprx) for aprx = 10^-k, as a count of 10^-CountDigits(k) s
RoundCount(ss, k) ==
  IF k >= SubDigits
    THEN ss.s * SubUnits + ss.u
    ELSE LET step == Pow10(SubDigits - k)
         IN  RoundHalfEven(ss.s * Pow10(k) + (ss.u \div step), ss.u % step, step)

\* n * aprx as a real number of seconds
CountToSec(n, k) ==
  [s |-> n \div Pow10(CountDigits(k)),
   u |-> (n % Pow10(CountDigits(k))) * Pow10(SubDigits - CountDigits(k))]

\* The carry of mjd2_to_cal is taken when the double round(ss/aprx)*aprx is
\* the double 60.0.  A product that is not 60.0 although the count is
\* 60 * 10^k is left in ss: 60 when the double is above 60.0, the largest
\* modelled value below 60 when it is below.
mjd2_to_cal(mjd2, aprx) ==
  LET Time(jd, hh, MM, ss) == [jd |-> jd, hh |-> hh, MM |-> MM, ss |-> ss]
      Carry(jd, hh, MM) ==
        IF MM + 1 = 60
          THEN IF hh + 1 = 24
                 THEN Time(DAdd(jd, DInt(1)), 0, 0, SInt(0))
                 ELSE Time(jd, hh + 1, 0, SInt(0))
          ELSE Time(jd, hh, MM + 1, SInt(0))
      Rounded(jd, hh, MM, n, prod) ==
        IF n = 60 * Pow10(CountDigits(aprx)) /\ prod = "eq" THEN Carry(jd, hh, MM)
        ELSE IF n = 60 * Pow10(CountDigits(aprx)) /\ prod = "lt"
          THEN Time(jd, hh, MM, [s |-> 59, u |-> SubUnits - 1])
          ELSE Time(jd, hh, MM, CountToSec(n, aprx))
      Round(jd, hmsm, ss, prod) ==
        IF aprx # NoAprx
          THEN Rounded(jd, hmsm.hour, hmsm.min, RoundCount(ss, aprx), prod)
          ELSE Time(jd, hmsm.hour, hmsm.min, ss)
      Split(hmsm, prod) ==
        Round(mjd_to_jd(DInt(mjd2.day)), hmsm, SNorm(hmsm.sec, hmsm.micro), prod)
      Ret(t, date) == Cal(date.year, date.month, DInt(DTrunc(date.day)), t.hh, t.MM, t.ss)
  IN  Only({Ret(t, jd_to_date(t.jd)) :
              t \in {Split(days_to_hmsm(mjd2.frac), FloatProd60(aprx))}})

mjd2_to_mjd(mjd2) == DAdd(DInt(mjd2.day), mjd2.frac)

mjd2_to_mjd3(mjd2) == [day |-> mjd2.day, sec |-> DaysToSec(mjd2.frac)]

mjd2_to_jd(mjd2) == mjd_to_jd(DAdd(DInt(mjd2.day), mjd2.frac))

\* tmp1 of mjd2_to_gps2: int((mjd - mjd0) / 7.)
GpsWeek(days) == TruncDiv(days, 7)

mjd2_to_gps2(mjd2, aprx) ==
  LET Ret(cal, tmp1, days) ==
        [week |-> tmp1, dow |-> days - 7 * tmp1, hour |-> cal.hour, min |-> cal.min,
         sec |-> cal.sec]
      Week(cal, days) == Ret(cal, GpsWeek(days), days)
  IN  Only({Week(cal, cal_to_mjd2(Cal(cal.year, cal.month, cal.day, 0, 0, SInt(0))).day
                        - mjd0) :
              cal \in {mjd2_to_cal(mjd2, aprx)}})

mjd2_to_gps(mjd2) ==
  Only({[week |-> g.week,
         sec |-> SAdd(SInt(g.dow * 86400 + g.hour * 3600 + g.min * 60), g.sec)] :
          g \in {mjd2_to_gps2(mjd2, NoAprx)}})

\* mjd2_to_doy counting January 1 as day 0
mjd2_to_doyMut(mjd2, aprx) ==
  LET Ret(cal, mjd, mjd00) ==
        [year |-> cal.year, ddd |-> mjd - mjd00, hour |-> cal.hour, min |-> cal.min,
         sec |-> cal.sec]
  IN  Only({Ret(cal, cal_to_mjd2(Cal(cal.year, cal.month, cal.day, 0, 0, SInt(0))).day,
                cal_to_mjd2(Cal(cal.year, 1, DInt(1), 0, 0, SInt(0))).day) :
              cal \in {mjd2_to_cal(mjd2, aprx)}})

mjd2_to_doy(mjd2, aprx) ==
  LET Ret(cal, mjd, mjd00) ==
        [year |-> cal.year, ddd |-> mjd - mjd00 + 1, hour |-> cal.hour, min |-> cal.min,
         sec |-> cal.sec]
  IN  Only({Ret(cal, cal_to_mjd2(Cal(cal.year, cal.month, cal.day, 0, 0, SInt(0))).day,
                cal_to_mjd2(Cal(cal.year, 1, DInt(1), 0, 0, SInt(0))).day) :
              cal \in {mjd2_to_cal(mjd2, aprx)}})

(***************************************************************************)
(* Decimal year input.  A decimal year is [iyear, fnum, fden]: iyear is    *)
(* int(year) and fnum/fden = year - int(year), with the sign of year.      *)
(***************************************************************************)
\* convtime("cal", "doy", [iyear, 12, 31, 0, 0, 0])[1]
num_days_in_year(iyear) ==
  mjd2_to_doy(cal_to_mjd2(Cal(iyear, 12, DInt(31), 0, 0, SInt(0))), NoAprx).ddd

\* the first k decimals of r / q for 0 <= r < q, as a count of 10^-k
RECURSIVE Decimals(_, _, _, _)
Decimals(r, q, k, acc) ==
  IF k = 0 THEN acc
  ELSE Decimals((10 * r) % q, q, k - 1, 10 * acc + ((10 * r) \div q))

year_to_mjd2(year) ==
  LET iday(N) == TruncDiv(N * year.fnum, year.fden)
      fday(rem) ==
        DNorm(0, (rem * SecPerDay) \div year.fden,
              Decimals((rem * SecPerDay) % year.fden, year.fden, SubDigits, 0))
  IN  Only({Mjd2(doy_to_mjd2([year |-> year.iyear, ddd |-> iday(N) + 1, hour |-> 0,
                              min |-> 0, sec |-> SInt(0)]).day,
                 fday(N * year.fnum - iday(N) * year.fden)) :
              N \in {num_days_in_year(year.iyear)}})

\* hours in a day: the decimal years of the model are whole hours, i.e.
\* multiples of 1 / (24 * num_days_in_year)
HoursPerDay == SecPerDay \div 3600

\* the float iyear + fnum/fden as a decimal year [int(year), year - int(year)]
DecimalYear(iyear, fnum, fden) ==
  LET Ret(whole, r) ==
        IF whole >= 0 \/ r = 0
          THEN [iyear |-> whole, fnum |-> r, fden |-> fden]
          ELSE [iyear |-> whole + 1, fnum |-> r - fden, fden |-> fden]
  IN  Ret(iyear + (fnum \div fden), fnum % fden)

mjd2_to_year(mjd2) ==
  LET Ret(doy, N) ==
        DecimalYear(doy.year,
                    (doy.ddd - 1) * HoursPerDay + mjd2.frac.d * HoursPerDay
                      + (mjd2.frac.s \div 3600),
                    N * HoursPerDay)
  IN  Only({Ret(doy, num_days_in_year(doy.year)) : doy \in {mjd2_to_doy(mjd2, NoAprx)}})

(***************************************************************************)
(* datetime and POSIX seconds.  A datetime object is the record of its     *)
(* fields.  The library functions are modelled by what they compute:       *)
(* datetime(...) checks its fields against the proleptic Gregorian         *)
(* calendar, fromtimestamp and timestamp convert between POSIX seconds and *)
(* the fields of local time, which is UTC + env seconds.                   *)
(***************************************************************************)
\* an exception that ends a call, in place of the value the call would return
ValueError == [error |-> "ValueError"]

\* sub-second units of the model in a microsecond
MicroUnits == Pow10(SubDigits - 6)

IsLeapGregorian(y) == y % 4 = 0 /\ (y % 100 # 0 \/ y % 400 = 0)

GregorianMonthLength(y, m) ==
  IF m = 2 THEN (IF IsLeapGregorian(y) THEN 29 ELSE 28)
  ELSE IF m \in {4, 6, 9, 11} THEN 30 ELSE 31

\* datetime.toordinal() of a date: day 1 is 0001-01-01
DaysBeforeMonth(y, m) ==
  <<0, 31, 59, 90, 120, 151, 181, 212, 243, 273, 304, 334>>[m]
    + (IF m > 2 /\ IsLeapGregorian(y) THEN 1 ELSE 0)

ymd2ord(y, m, d) ==
  (y - 1) * 365 + ((y - 1) \div 4) - ((y - 1) \div 100) + ((y - 1) \div 400)
    + DaysBeforeMonth(y, m) + d

\* years whose dates fromtimestamp can return in the model
CivilYears == {1969, 1970, 1971, 2001}

\* the date of an ordinal
ord2ymd(n) ==
  CHOOSE c \in CivilYears \X (1..12) \X (1..31) :
    c[3] <= GregorianMonthLength(c[1], c[2]) /\ ymd2ord(c[1], c[2], c[3]) = n

\* dt.datetime(year, month, day, hour, minute, second, microsecond)
datetime(year, month, day, hour, minute, second, microsecond) ==
  IF /\ year \in 1..9999 /\ month \in 1..12
     /\ day \in 1..GregorianMonthLength(year, month)
     /\ hour \in 0..23 /\ minute \in 0..59 /\ second \in 0..59
     /\ microsecond \in 0..999999
    THEN [year |-> year, month |-> month, day |-> day, hour |-> hour,
          minute |-> minute, second |-> second, microsecond |-> microsecond]
    ELSE ValueError

\* dt.datetime.fromtimestamp(sec): the fields of local time
fromtimestamp(sec) ==
  LET Ret(date, sod, us) ==
        datetime(date[1], date[2], date[3], sod \div 3600, (sod % 3600) \div 60,
                 sod % 60, us)
      Local(t) ==
        Ret(ord2ymd(ymd2ord(1970, 1, 1) + (t.s \div SecPerDay)), t.s % SecPerDay,
            t.u \div MicroUnits)
      Micro(us) == Local(SNorm(sec.s + env, us * MicroUnits))
  IN  Micro(RoundHalfEven(sec.u \div MicroUnits, sec.u % MicroUnits, MicroUnits))

\* datetime.timestamp() of a naive datetime: its fields read as local time
timestamp(datetime_) ==
  SNorm((ymd2ord(datetime_.year, datetime_.month, datetime_.day) - ymd2ord(1970, 1, 1))
          * SecPerDay
          + datetime_.hour * 3600 + datetime_.minute * 60 + datetime_.second - env,
        datetime_.microsecond * MicroUnits)

datetime_to_mjd2(datetime_) ==
  cal_to_mjd2(Cal(datetime_.year, datetime_.month, DInt(datetime_.day), datetime_.hour,
                  datetime_.minute,
                  SNorm(datetime_.second, datetime_.microsecond * MicroUnits)))

sec_to_mjd2(sec) == datetime_to_mjd2(fromtimestamp(sec))

mjd2_to_datetime(mjd2) ==
  LET Ret(cal, sec, us) ==
        datetime(cal.year, cal.month, cal.day.d, cal.hour, cal.min, sec, us)
      Rem(cal, sec) ==
        Ret(cal, sec,
            RoundHalfEven(((cal.sec.s - sec) * SubUnits + cal.sec.u) \div MicroUnits,
                          ((cal.sec.s - sec) * SubUnits + cal.sec.u) % MicroUnits,
                          MicroUnits))
      Sec(cal) == Rem(cal, RoundHalfEven(cal.sec.s, cal.sec.u, SubUnits))
  IN  Sec(mjd2_to_cal(mjd2, NoAprx))

mjd2_to_sec(mjd2) ==
  LET Ret(datetime_) ==
        IF datetime_ = ValueError THEN ValueError ELSE timestamp(datetime_)
  IN  Ret(mjd2_to_datetime(mjd2))

(***************************************************************************)
(* convtime(ifmt, ofmt, data, aprx).  A format name that no branch of the  *)
(* if/elif chain matches leaves mjd2 or ret unbound, and the function ends *)
(* in UnboundLocalError.                                                   *)
(***************************************************************************)
UnboundLocalError == [error |-> "UnboundLocalError"]

InFormats ==
  {"mjd", "mjd2", "mjd3", "jd", "cal", "gps", "gps2", "doy", "datetime", "sec", "year"}

OutFormats ==
  {"mjd", "mjd2", "mjd3", "jd", "cal", "gps", "gps2", "doy", "datetime", "sec", "year"}

convtime_in(ifmt, data) ==
  CASE ifmt = "mjd"  -> mjd_to_mjd2(data)
    [] ifmt = "mjd2" -> data
    [] ifmt = "mjd3" -> mjd3_to_mjd2(data)
    [] ifmt = "jd"   -> jd_to_mjd2(data)
    [] ifmt = "cal"  -> cal_to_mjd2(data)
    [] ifmt = "gps"  -> gps_to_mjd2(data)
    [] ifmt = "gps2" -> gps2_to_mjd2(data)
    [] ifmt = "doy"  -> doy_to_mjd2(data)
    [] ifmt = "datetime" -> datetime_to_mjd2(data)
    [] ifmt = "sec"  -> sec_to_mjd2(data)
    [] ifmt = "year" -> year_to_mjd2(data)

convtime_out(ofmt, mjd2, aprx) ==
  CASE ofmt = "mjd"  -> mjd2_to_mjd(mjd2)
    [] ofmt = "mjd2" -> mjd2
    [] ofmt = "mjd3" -> mjd2_to_mjd3(mjd2)
    [] ofmt = "jd"   -> mjd2_to_jd(mjd2)
    [] ofmt = "cal"  -> mjd2_to_cal(mjd2, aprx)
    [] ofmt = "gps"  -> mjd2_to_gps(mjd2)
    [] ofmt = "gps2" -> mjd2_to_gps2(mjd2, aprx)
    [] ofmt = "doy"  -> mjd2_to_doy(mjd2, aprx)
    [] ofmt = "datetime" -> mjd2_to_datetime(mjd2)
    [] ofmt = "sec"  -> mjd2_to_sec(mjd2)
    [] ofmt = "year" -> mjd2_to_year(mjd2)

\* convtime taking an unknown format name for "mjd2"
convtimeMut(ifmt, ofmt, data, aprx) ==
  convtime_out(IF ofmt \in OutFormats THEN ofmt ELSE "mjd2",
               convtime_in(IF ifmt \in InFormats THEN ifmt ELSE "mjd2", data), aprx)

\* mjd2 is assigned once, by the input branch, and then read by the output
\* branch
convtime(ifmt, ofmt, data, aprx) ==
  IF ifmt \notin InFormats \/ ofmt \notin OutFormats
    THEN UnboundLocalError
    ELSE CHOOSE ret_ \in {convtime_out(ofmt, mjd2, aprx) : mjd2 \in {convtime_in(ifmt, data)}} :
           TRUE

(***************************************************************************)
(* Calendar specification: date_to_jd and jd_to_date applied to existing   *)
(* calendar dates and to Julian Days, each followed by the other           *)
(* direction.  The actions record the calendar branch the code took.       *)
(***************************************************************************)
IsLeapInForce(y) ==
  IF y <= 1582 THEN y % 4 = 0
  ELSE y % 4 = 0 /\ (y % 100 # 0 \/ y % 400 = 0)

MonthLength(y, m) ==
  IF m = 2 THEN (IF IsLeapInForce(y) THEN 29 ELSE 28)
  ELSE IF m \in {4, 6, 9, 11} THEN 30 ELSE 31

ExistingDate(y, m, d) ==
  /\ m \in 1..12
  /\ d \in 1..MonthLength(y, m)
  /\ ~(y = 1582 /\ m = 10 /\ d \in 5..14)

PivotYears == {-4720, -4716, -4712, -100, -4, 0, 1500, 1582, 1600, 1900, 1980, 2000, 2019}

YearSpan == 1

CalYears == {p + i : p \in PivotYears, i \in (-YearSpan)..YearSpan}

\* time of day carried by the day field of a date, as a fraction of a day
DayFracs == {[d |-> 0, s |-> 0, u |-> 0], [d |-> 0, s |-> 21600, u |-> 0],
             [d |-> 0, s |-> 86399, u |-> SubUnits - 1]}

PivotJds == {-2000, 0, 1721058, 2299160, 2400000, 2444239, 2458526}

CalJds == {DAdd(DInt(p + i), f) : p \in PivotJds, i \in (-JdSpan)..JdSpan, f \in DayFracs}

CalDates ==
  {[year |-> y, month |-> m, day |-> DAdd(DInt(d), f)] :
     y \in CalYears, m \in 1..12, d \in 1..31, f \in DayFracs}

InitCal ==
  /\ \/ /\ op = "date"
        /\ arg \in {c \in CalDates : ExistingDate(c.year, c.month, c.day.d)}
     \/ /\ op = "jd"
        /\ arg \in CalJds
  /\ ret = NoValue
  /\ pt = NoValue
  /\ env = UTC

EncodeDate ==
  /\ op = "date"
  /\ op' = "date_to_jd"
  /\ ret' = [jd |-> date_to_jd(arg.year, arg.month, arg.day),
             gregorian |-> ~BeforeGregorian(arg.year, arg.month, arg.day)]
  /\ UNCHANGED <<arg, pt, env>>

DecodeEncoded ==
  /\ op = "date_to_jd"
  /\ op' = "date_to_jd.jd_to_date"
  /\ ret' = [jd |-> ret.jd,
             date |-> jd_to_date(ret.jd),
             enc_gregorian |-> ret.gregorian,
             dec_gregorian |-> GregorianBranch(Modf(DAdd(ret.jd, HalfDay)).int)]
  /\ UNCHANGED <<arg, pt, env>>

DecodeJd ==
  /\ op = "jd"
  /\ op' = "jd_to_date"
  /\ ret' = [date |-> jd_to_date(arg),
             gregorian |-> GregorianBranch(Modf(DAdd(arg, HalfDay)).int)]
  /\ UNCHANGED <<arg, pt, env>>

EncodeDecoded ==
  /\ op = "jd_to_date"
  /\ op' = "jd_to_date.date_to_jd"
  /\ ret' = [date |-> ret.date,
             jd |-> date_to_jd(ret.date.year, ret.date.month, ret.date.day)]
  /\ UNCHANGED <<arg, pt, env>>

NextCal == EncodeDate \/ DecodeEncoded \/ DecodeJd \/ EncodeDecoded

SpecCal == InitCal /\ [][NextCal]_vars

\* the first year of the calendar's defined domain: the year of Julian Day 0,
\* -4712
DomainYear == jd_to_date(DInt(0)).year

\* C5 (as stated): for every existing calendar date, negative years included,
\* jd_to_date(date_to_jd(date)) is the date, and for every Julian Day
\* date_to_jd(jd_to_date(jd)) is the Julian Day.
C5_RoundTripEveryDate ==
  /\ op = "date_to_jd.jd_to_date" => ret.date = arg
  /\ op = "jd_to_date.date_to_jd" => ret.jd = arg

\* C5 (amended): the round trips hold for every existing calendar date of the
\* years from -4712 on and for every Julian Day jd >= 0.
C5_RoundTripInDomain ==
  /\ (op = "date_to_jd.jd_to_date" /\ arg.year >= DomainYear) => ret.date = arg
  /\ (op = "jd_to_date.date_to_jd" /\ arg.d >= 0) => ret.jd = arg

\* a negative-year date and a date after the cutover have made the round trip
C5_Witness ==
  /\ op = "date_to_jd.jd_to_date"
  /\ arg.year = -4
  /\ arg.month = 2
  /\ arg.day.d = 29
  /\ ret.date = arg

\* 1582-10-15 00:00 on the calendar
CutoverJd == [d |-> 2299160, s |-> 43200, u |-> 0]

OnOrAfterCutover(date) ==
  \/ date.year > 1582
  \/ date.year = 1582 /\ date.month > 10
  \/ date.year = 1582 /\ date.month = 10 /\ date.day.d >= 15

\* C6: date_to_jd applies the Gregorian correction exactly to the dates on or
\* after 1582-10-15, jd_to_date takes its Gregorian branch exactly for the
\* Julian Days of those dates, and a date is decoded under the rule it was
\* encoded under.
C6_SameCutover ==
  /\ op = "date_to_jd" => (ret.gregorian <=> OnOrAfterCutover(arg))
  /\ op = "date_to_jd.jd_to_date" =>
       /\ ret.enc_gregorian = ret.dec_gregorian
       /\ ret.dec_gregorian <=> OnOrAfterCutover(arg)
  /\ op = "jd_to_date" => (ret.gregorian <=> ~DLess(arg, CutoverJd))

\* the first Gregorian date, 1582-10-15, was encoded and decoded as Gregorian
C6_Witness ==
  /\ op = "date_to_jd.jd_to_date"
  /\ arg.year = 1582 /\ arg.month = 10 /\ arg.day.d = 15
  /\ ret.enc_gregorian /\ ret.dec_gregorian

(***************************************************************************)
(* Conversion specification: convtime(A, B, x) on a valid payload x of     *)
(* format A, followed by convtime(B, A, .) on its result.                  *)
(***************************************************************************)
\* sub-second parts and times of day of the sample payloads
SampleUnits == {0, 1, SubUnits - 1}

SampleSecs == {SNorm(s, u) : s \in {0, 1, 59}, u \in SampleUnits}

SampleHours == {0, 12, 23}

SampleMins == {0, 59}

\* MJD of 1582-10-04, 1582-10-15, 1858-11-16, 1858-11-17, 1980-01-05,
\* 1980-01-06, 1980-01-12, 2014-12-31 and 2019-02-11
SampleDays == {-100841, -100840, -1, 0, 44243, 44244, 44250, 57022, 58525}

SampleFracs == {[d |-> 0, s |-> s, u |-> u] : s \in {0, 43200, 86399}, u \in SampleUnits}

SampleDates == {<<1582, 10, 4>>, <<1582, 10, 15>>, <<1858, 11, 16>>, <<1980, 1, 5>>,
                <<1980, 1, 6>>, <<2015, 1, 1>>, <<2016, 2, 29>>, <<2019, 12, 31>>}

SampleDoys == {<<1582, 277>>, <<1858, 320>>, <<1980, 5>>, <<1980, 6>>, <<2015, 40>>,
               <<2016, 366>>}

SampleWeeks == {-1, 0, 1, 1825}

ValidPayloads(fmt) ==
  CASE fmt = "mjd"  -> {DAdd(DInt(d), f) : d \in SampleDays, f \in SampleFracs}
    [] fmt = "mjd2" -> {Mjd2(d, f) : d \in SampleDays, f \in SampleFracs}
    [] fmt = "mjd3" -> {[day |-> d, sec |-> DaysToSec(f)] : d \in SampleDays, f \in SampleFracs}
    [] fmt = "jd"   -> {DAdd(DAdd(DInt(d), f), JdMjdOffset) : d \in SampleDays, f \in SampleFracs}
    [] fmt = "cal"  -> {Cal(c[1], c[2], DInt(c[3]), hh, mn, ss) :
                          c \in SampleDates, hh \in SampleHours, mn \in SampleMins,
                          ss \in SampleSecs}
    [] fmt = "doy"  -> {[year |-> c[1], ddd |-> c[2], hour |-> hh, min |-> mn, sec |-> ss] :
                          c \in SampleDoys, hh \in SampleHours, mn \in SampleMins,
                          ss \in SampleSecs}
    [] fmt = "gps"  -> {[week |-> w, sec |-> SNorm(s, u)] :
                          w \in SampleWeeks, s \in {0, 259200, 400000, 604799},
                          u \in SampleUnits}
    [] fmt = "gps2" -> {[week |-> w, dow |-> wd, hour |-> hh, min |-> mn, sec |-> ss] :
                          w \in SampleWeeks, wd \in {0, 3, 6}, hh \in {0, 23},
                          mn \in SampleMins, ss \in SampleSecs}

\* the formats of the round trips
RoundTripFormats == {"mjd", "mjd2", "mjd3", "jd", "cal", "gps", "gps2", "doy"}

InitConv ==
  /\ op = "input"
  /\ \E A \in RoundTripFormats, B \in RoundTripFormats :
       \E x \in ValidPayloads(A) : arg = [ifmt |-> A, ofmt |-> B, data |-> x]
  /\ ret = NoValue
  /\ pt = NoValue
  /\ env = UTC

ConvertForward ==
  /\ op = "input"
  /\ op' = "convtime"
  /\ ret' = [mid |-> convtime(arg.ifmt, arg.ofmt, arg.data, NoAprx)]
  /\ UNCHANGED <<arg, pt, env>>

ConvertBack ==
  /\ op = "convtime"
  /\ op' = "convtime.convtime"
  /\ ret' = [mid |-> ret.mid, back |-> convtime(arg.ofmt, arg.ifmt, ret.mid, NoAprx)]
  /\ UNCHANGED <<arg, pt, env>>

NextConv == ConvertForward \/ ConvertBack

SpecConv == InitConv /\ [][NextConv]_vars

\* C1: for any two formats A, B and any valid payload x of format A,
\* converting x from A to B and the result back from B to A returns x.
C1_RoundTrip == op = "convtime.convtime" => ret.back = arg.data

(***************************************************************************)
(* MJD2 specification: clean_mjd2 on an integer day and a real frac.       *)
(***************************************************************************)
CleanInputs ==
  {Mjd2(day, [d |-> fd, s |-> s, u |-> u]) :
     day \in {-5, 0, 57022}, fd \in (-MaxDrift)..MaxDrift,
     s \in {0, 1, 17280, 43200, 69120, 86399}, u \in SampleUnits}

InitMjd2 ==
  /\ op = "input"
  /\ arg \in CleanInputs
  /\ ret = NoValue
  /\ pt = NoValue
  /\ env = UTC

Clean ==
  /\ op = "input"
  /\ op' = "clean_mjd2"
  /\ ret' = clean_mjd2(arg)
  /\ UNCHANGED <<arg, pt, env>>

NextMjd2 == Clean

SpecMjd2 == InitMjd2 /\ [][NextMjd2]_vars

\* C2: clean_mjd2([day, frac]) returns [day', frac'] with
\* day' + frac' = day + frac and 0 <= frac' < 1, for every integer day and
\* every real frac.
C2_CleanNormalizes ==
  op = "clean_mjd2" =>
    /\ DAdd(DInt(ret.day), ret.frac) = DAdd(DInt(arg.day), arg.frac)
    /\ Normalized(ret)

(***************************************************************************)
(* DeltaTime(fmt, val): the stored day count.  val is a real number of     *)
(* days for "day", of seconds for "sec", an integer count for "year".      *)
(***************************************************************************)
\* err_msg is not a name of the module: calling it raises NameError
NameError == [error |-> "NameError"]

DeltaTime(fmt, val) ==
  CASE fmt = "day"  -> val
    [] fmt = "sec"  -> SecToDays(val)
    [] fmt = "year" -> DNorm(365 * val, 21600 * val, 0)
    [] OTHER        -> NameError

(***************************************************************************)
(* PreciseTime specification: PreciseTime(fmt, payload) stores             *)
(* convtime(fmt, "mjd2", payload) in _val (pt); `+ DeltaTime` makes a new  *)
(* PreciseTime from add_mjd2 of the stored value, which pt then holds.     *)
(***************************************************************************)
\* payloads of the constructor: the valid payloads of every format, MJD2
\* payloads with frac outside [0, 1), and decimal years
CtorPayloads(fmt) ==
  CASE fmt = "mjd2" -> {Mjd2(d, [d |-> fd, s |-> s, u |-> 0]) :
                          d \in {-1, 57022}, fd \in {-1, 0, 1}, s \in {0, 17280, 43200}}
    [] fmt = "mjd"  -> {[d |-> d, s |-> s, u |-> 0] : d \in {-2, 57022}, s \in {0, 43200}}
    [] fmt = "jd"   -> {[d |-> d, s |-> s, u |-> 0] :
                          d \in {2399999, 2400000, 2457022}, s \in {0, 43200, 64800}}
    [] fmt = "mjd3" -> {[day |-> d, sec |-> SInt(s)] : d \in {57022}, s \in {0, 3600, 43200}}
    [] fmt = "cal"  -> {Cal(c[1], c[2], DInt(c[3]), hh, 0, SInt(0)) :
                          c \in {<<1582, 10, 4>>, <<2015, 1, 1>>}, hh \in {0, 12}}
    [] fmt = "doy"  -> {[year |-> 2015, ddd |-> n, hour |-> hh, min |-> 0, sec |-> SInt(0)] :
                          n \in {1, 40}, hh \in {0, 12}}
    [] fmt = "gps"  -> {[week |-> w, sec |-> SInt(s)] : w \in {-1, 1825}, s \in {0, 259200}}
    [] fmt = "gps2" -> {[week |-> w, dow |-> 3, hour |-> hh, min |-> 0, sec |-> SInt(0)] :
                          w \in {-1, 1825}, hh \in {0, 12}}
    [] fmt = "year" -> {[iyear |-> y, fnum |-> n, fden |-> 4] : y \in {0}, n \in {-1, 0, 1, 3}}
                         \cup {[iyear |-> 2017, fnum |-> n, fden |-> 4] : n \in {0, 1, 3}}
    [] fmt = "sec"  -> {SInt(0), SInt(86399)}
    [] fmt = "datetime" -> {datetime(1970, 1, 1, hh, 0, 0, 0) : hh \in {0, 12}}

\* durations added to a PreciseTime: whole and fractional days of both signs
Deltas ==
  {DeltaTime("day", DNorm(0, q * 21600, 0)) : q \in {-6, -4, -1, 0, 1, 2, 4}}
    \cup {DeltaTime("sec", SInt(-129600)), DeltaTime("sec", SInt(21600))}

InitPT ==
  /\ op = "input"
  /\ \E fmt \in InFormats : \E x \in CtorPayloads(fmt) : arg = [fmt |-> fmt, val |-> x]
  /\ ret = NoValue
  /\ pt = NoValue
  /\ env = UTC

Construct ==
  /\ op = "input"
  /\ op' = "PreciseTime"
  /\ pt' = convtime(arg.fmt, "mjd2", arg.val, NoAprx)
  /\ ret' = [made |-> pt', delta |-> NoValue]
  /\ UNCHANGED <<arg, env>>

Add ==
  /\ op \in {"PreciseTime", "__add__"}
  /\ \E d \in Deltas :
       LET new_mjd2 == add_mjd2(convtime("mjd2", "mjd2", pt, NoAprx), d)
       IN  /\ new_mjd2.day - ret.made.day \in (-MaxDrift)..MaxDrift
           /\ pt' = convtime("mjd2", "mjd2", new_mjd2, NoAprx)
           /\ ret' = [made |-> ret.made, delta |-> d]
  /\ op' = "__add__"
  /\ UNCHANGED <<arg, env>>

NextPT == Construct \/ Add

SpecPT == InitPT /\ [][NextPT]_vars

\* C3: from a PreciseTime whose stored MJD2 has 0 <= frac < 1, every
\* `+ DeltaTime` produces a PreciseTime whose stored MJD2 has 0 <= frac < 1.
C3_AddKeepsNormalized ==
  [][(op \in {"PreciseTime", "__add__"} /\ op' = "__add__" /\ Normalized(pt))
       => Normalized(pt')]_vars

\* C4: the MJD2 that PreciseTime(format, payload) stores has 0 <= frac < 1,
\* for every input format and every payload of that format.
C4_ConstructNormalizes == op = "PreciseTime" => Normalized(pt)

(***************************************************************************)
(* Calendar output specification: mjd2_to_cal(mjd2, aprx) on a normalized  *)
(* MJD2 and a rounding increment aprx = 10^-k seconds.                     *)
(***************************************************************************)
\* sub-second parts around the rounding ties of every increment
TieUnits ==
  {0, 1} \cup {SubUnits - 5 * Pow10(j) + e : j \in 0..(SubDigits - 1), e \in {-1, 0, 1}}
         \cup {5 * Pow10(j) + e : j \in 0..(SubDigits - 1), e \in {-1, 0, 1}}

\* MJD of 1582-10-04, 2016-02-28, 2019-02-11, 2019-02-28 and 2019-12-31
CarryDays == {-100841, 57446, 58525, 58542, 58848}

CalOutInputs ==
  {[mjd2 |-> Mjd2(d, [d |-> 0, s |-> s, u |-> u]), aprx |-> k] :
     d \in CarryDays, s \in {0, 59, 3599, 43199, 86340, 86399}, u \in TieUnits,
     k \in 0..MaxPrec}

InitCalOut ==
  /\ op = "input"
  /\ arg \in CalOutInputs
  /\ ret = NoValue
  /\ pt = NoValue
  /\ env = UTC

ToCal ==
  /\ op = "input"
  /\ op' = "mjd2_to_cal"
  /\ ret' = mjd2_to_cal(arg.mjd2, arg.aprx)
  /\ UNCHANGED <<arg, pt, env>>

NextCalOut == ToCal

SpecCalOut == InitCalOut /\ [][NextCalOut]_vars

\* the instant a calendar value denotes, as a real MJD
CalInstant(cal) ==
  DAdd(jd_to_mjd(date_to_jd(cal.year, cal.month, cal.day)),
       SecToDays(SAdd(SInt(cal.hour * 3600 + cal.min * 60), cal.sec)))

\* |x| <= 10^-k / 2 seconds, for a real number of days x
WithinHalfStep(x, k) ==
  LET step == Pow10(SubDigits - k)
  IN  \/ x.d = 0 /\ x.s = 0 /\ 2 * x.u <= step
      \/ x.d = -1 /\ x.s = SecPerDay - 1 /\ 2 * (SubUnits - x.u) <= step

\* C7: mjd2_to_cal(mjd2, 10^-k) returns hour in 0..23, minute in 0..59 and
\* second in [0, 60) that is a multiple of 10^-k, and the returned date-time
\* is the input instant rounded to the nearest multiple of 10^-k.
C7_RoundedCalendar ==
  op = "mjd2_to_cal" =>
    /\ ret.hour \in 0..23
    /\ ret.min \in 0..59
    /\ ret.sec.s \in 0..59
    /\ arg.aprx <= SubDigits => ret.sec.u % Pow10(SubDigits - arg.aprx) = 0
    /\ arg.aprx <= SubDigits =>
         WithinHalfStep(DSub(CalInstant(ret), mjd2_to_mjd(arg.mjd2)), arg.aprx)

(***************************************************************************)
(* format_time(istr, pe).  A template is a sequence of tokens              *)
(* [kind, prec]; prec is the digit count written in an SS, DSEC or MJD     *)
(* token and NoPrec in the other tokens.  The result is the sequence of    *)
(* fields that replace the tokens: [kind, prec, val, done], done = FALSE   *)
(* for a token that no replace of format_time matched.  An SS, DSEC or MJD *)
(* token with prec = NoPrec is the token without digits ("[SS]"); a token  *)
(* of another kind than the twelve keywords is text between tokens or a    *)
(* bracketed name that format_time does not know.                          *)
(***************************************************************************)
NoPrec == -1

\* a pivot of 70 in place of 80
yy_to_yyyyMut(yy) == IF yy < 70 THEN yy + 2000 ELSE yy + 1900

yy_to_yyyy(yy) == IF yy < 80 THEN yy + 2000 ELSE yy + 1900

yyyy_to_yy(yyyy) == IF yyyy >= 2000 THEN yyyy - 2000 ELSE yyyy - 1900

Token(kind, prec) == [kind |-> kind, prec |-> prec]

Field(kind, prec, val) == [kind |-> kind, prec |-> prec, val |-> val, done |-> TRUE]

Unreplaced(tok) == [kind |-> tok.kind, prec |-> tok.prec, val |-> NoValue, done |-> FALSE]

\* istr.find("[" + keyword) > -1
HasToken(istr, keyword) == \E i \in 1..Len(istr) : istr[i].kind = keyword

\* the token at the index istr.find("[" + keyword)
FirstToken(istr, keyword) ==
  istr[CHOOSE i \in 1..Len(istr) :
         /\ istr[i].kind = keyword
         /\ \A j \in 1..(i - 1) : istr[j].kind # keyword]

find_precision(istr, keyword) == FirstToken(istr, keyword).prec

\* int(istr[ind1:ind2]) of find_precision and format_float is int(""): the
\* first token of the keyword has no digits before its closing bracket
NoDigits(istr, keyword) ==
  HasToken(istr, keyword) /\ FirstToken(istr, keyword).prec = NoPrec

\* the rounding increment of format_time, as the digit count k of 10^-k
FormatAprx(istr) ==
  LET aprx0 == NoAprx
      aprx1 == IF HasToken(istr, "SS") THEN find_precision(istr, "SS") ELSE aprx0
  IN  IF HasToken(istr, "DSEC") THEN find_precision(istr, "DSEC") ELSE aprx1

\* "%.kf" % val for a real number of seconds: val rounded to k decimals
FormatSec(val, k) ==
  IF k >= SubDigits THEN val
  ELSE LET step == Pow10(SubDigits - k)
           q    == val.u \div step
           par  == IF k = 0 THEN val.s ELSE q
           q1   == RoundHalfEven(par, val.u % step, step) - par + q
       IN  SNorm(val.s, q1 * step)

\* the first k decimals of rem (a real number of days in [0, 1)) and what is
\* left of rem after them, scaled by 10^k
RECURSIVE DayDigits(_, _, _)
DayDigits(rem, k, acc) ==
  IF k = 0 THEN [digits |-> acc, rem |-> rem]
  ELSE LET t == SNorm(10 * rem.s, 10 * rem.u)
       IN  DayDigits([d |-> 0, s |-> t.s % SecPerDay, u |-> t.u], k - 1,
                     10 * acc + (t.s \div SecPerDay))

\* "%.kf" % mjd for a real number of days: [whole, digits], digits the
\* count of 10^-k day
FormatDays(mjd, k) ==
  LET Ret(dg) ==
        IF dg = Pow10(k) THEN [whole |-> mjd.d + 1, digits |-> 0]
        ELSE [whole |-> mjd.d, digits |-> dg]
      Up(dd, par) ==
        IF DLess(HalfDay, dd.rem) \/ (dd.rem = HalfDay /\ par % 2 # 0)
          THEN Ret(dd.digits + 1)
          ELSE Ret(dd.digits)
      Par(dd) == Up(dd, IF k = 0 THEN mjd.d ELSE dd.digits)
  IN  Par(DayDigits([d |-> 0, s |-> mjd.s, u |-> mjd.u], k, 0))

format_time(istr, mjd2) ==
  LET Float(tok, val) ==
        IF tok = FirstToken(istr, tok.kind)
          THEN Field(tok.kind, tok.prec,
                     IF tok.kind = "MJD" THEN FormatDays(val, tok.prec)
                     ELSE FormatSec(val, tok.prec))
          ELSE Unreplaced(tok)
      Out(tok, cal, doy, gps2, mjd) ==
        CASE tok.kind = "WWWW" -> Field("WWWW", NoPrec, gps2.week)
          [] tok.kind = "D"    -> Field("D", NoPrec, gps2.dow)
          [] tok.kind = "YYYY" -> Field("YYYY", NoPrec, doy.year)
          [] tok.kind = "YY"   -> Field("YY", NoPrec, yyyy_to_yy(doy.year))
          [] tok.kind = "DDD"  -> Field("DDD", NoPrec, doy.ddd)
          [] tok.kind = "MM"   -> Field("MM", NoPrec, cal.month)
          [] tok.kind = "DD"   -> Field("DD", NoPrec, cal.day.d)
          [] tok.kind = "HH"   -> Field("HH", NoPrec, cal.hour)
          [] tok.kind = "MN"   -> Field("MN", NoPrec, cal.min)
          [] tok.kind = "MJD"  -> Float(tok, mjd)
          [] tok.kind = "SS"   -> Float(tok, cal.sec)
          [] tok.kind = "DSEC" ->
               Float(tok, SAdd(SInt(cal.hour * 3600 + cal.min * 60), cal.sec))
          [] OTHER -> Unreplaced(tok)
      Ret(aprx, cal, doy, gps2, mjd) ==
        [aprx |-> aprx, out |-> [i \in 1..Len(istr) |-> Out(istr[i], cal, doy, gps2, mjd)]]
  IN  IF NoDigits(istr, "SS") \/ NoDigits(istr, "DSEC") \/ NoDigits(istr, "MJD")
        THEN ValueError
        ELSE Only({Ret(aprx, convtime("mjd2", "cal", mjd2, aprx),
                       convtime("mjd2", "doy", mjd2, aprx),
                       convtime("mjd2", "gps2", mjd2, aprx),
                       convtime("mjd2", "mjd", mjd2, NoAprx)) :
                     aprx \in {FormatAprx(istr)}})

(***************************************************************************)
(* Formatter specification: format_time on a template and the MJD2 of a    *)
(* PreciseTime built from a valid payload.                                 *)
(***************************************************************************)
\* digit counts written in the SS, DSEC and MJD tokens of the templates
TokenPrecs == {0, 3, MaxPrec}

Tokens ==
  {Token(kd, NoPrec) : kd \in {"YYYY", "YY", "MM", "DD", "DDD", "WWWW", "D", "HH", "MN"}}
    \cup {Token(kd, k) : kd \in {"SS", "DSEC", "MJD"}, k \in TokenPrecs}

RECURSIVE SeqsUpTo(_, _)
SeqsUpTo(S, n) ==
  IF n = 0 THEN {<<>>}
  ELSE LET shorter == SeqsUpTo(S, n - 1)
       IN  shorter \cup {Append(t, x) : t \in shorter, x \in S}

Templates == SeqsUpTo(Tokens, MaxTokens) \ {<<>>}

\* MJD of 2019-02-11 and of 2019-12-31; times of day before the rounding
\* carries of second, minute, hour and day
FmtInstants ==
  {Mjd2(d, [d |-> 0, s |-> s, u |-> u]) :
     d \in {58525, 58848}, s \in {0, 1295, 43199, 86399},
     u \in {0, 1, 500000, 550000, 600000, 999600, 999999}}

InitFmt ==
  /\ op = "input"
  /\ \E istr \in Templates, mjd2 \in FmtInstants : arg = [istr |-> istr, mjd2 |-> mjd2]
  /\ ret = NoValue
  /\ pt = NoValue
  /\ env = UTC

Format ==
  /\ op = "input"
  /\ op' = "format_time"
  /\ pt' = convtime("mjd2", "mjd2", arg.mjd2, NoAprx)
  /\ ret' = format_time(arg.istr, convtime("mjd2", "mjd2", pt', NoAprx))
  /\ UNCHANGED <<arg, env>>

NextFmt == Format

SpecFmt == InitFmt /\ [][NextFmt]_vars

\* the largest digit count of the SS and DSEC tokens of a template
MaxTokenPrec(istr) ==
  LET ks == {istr[i].prec : i \in {j \in 1..Len(istr) : istr[j].kind \in {"SS", "DSEC"}}}
  IN  IF ks = {} THEN NoAprx ELSE CHOOSE k \in ks : \A x \in ks : x <= k

\* the instant of mjd2 rounded to the nearest multiple of 10^-k seconds
\* (k = NoAprx: not rounded), as a normalized MJD2
NearestInstant(mjd2, k) ==
  IF k = NoAprx \/ k >= SubDigits THEN mjd2
  ELSE LET step == Pow10(SubDigits - k)
           q    == mjd2.frac.u \div step
           par  == IF k = 0 THEN mjd2.frac.s ELSE q
           q1   == RoundHalfEven(par, mjd2.frac.u % step, step) - par + q
           x    == DNorm(mjd2.day, mjd2.frac.s, q1 * step)
       IN  Mjd2(x.d, [d |-> 0, s |-> x.s, u |-> x.u])

\* the value a date or time token shows for a normalized MJD2 t
ShownBy(kind, t) ==
  CASE kind = "HH"   -> t.frac.s \div 3600
    [] kind = "MN"   -> (t.frac.s % 3600) \div 60
    [] kind = "YYYY" -> jd_to_date(mjd_to_jd(DInt(t.day))).year
    [] kind = "YY"   -> yyyy_to_yy(jd_to_date(mjd_to_jd(DInt(t.day))).year)
    [] kind = "MM"   -> jd_to_date(mjd_to_jd(DInt(t.day))).month
    [] kind = "DD"   -> jd_to_date(mjd_to_jd(DInt(t.day))).day.d
    [] kind = "DDD"  -> t.day - cal_to_mjd2(Cal(jd_to_date(mjd_to_jd(DInt(t.day))).year, 1,
                                                DInt(1), 0, 0, SInt(0))).day + 1
    [] kind = "WWWW" -> (t.day - mjd0) \div 7
    [] kind = "D"    -> (t.day - mjd0) % 7

\* C8: all date and time fields of one format_time output denote one and
\* the same rounded instant (the instant rounded to the largest precision
\* the template asks for), the seconds field is never 60 and the
\* day-seconds field is never 86400.
C8_OneRoundedInstant ==
  op = "format_time" =>
    \A i \in 1..Len(ret.out) :
      LET f == ret.out[i]
      IN  /\ (f.done /\ f.kind = "SS") => f.val.s < 60
          /\ (f.done /\ f.kind = "DSEC") => f.val.s < SecPerDay
          /\ (f.done /\ f.kind \notin {"SS", "DSEC", "MJD"}) =>
               f.val = ShownBy(f.kind, NearestInstant(arg.mjd2, MaxTokenPrec(arg.istr)))

\* C9: the rounding increment of format_time is 10^-k for the largest k
\* that an SS or DSEC token of the template asks for.
C9_MaxPrecision == op = "format_time" => ret.aprx = MaxTokenPrec(arg.istr)

\* C10: the value rendered for an MJD token is computed from the instant
\* rounded with the aprx of that output, as the calendar fields are.
C10_MjdFromRoundedInstant ==
  op = "format_time" =>
    \A i \in 1..Len(ret.out) :
      (ret.out[i].done /\ ret.out[i].kind = "MJD") =>
        ret.out[i].val =
          FormatDays(mjd2_to_mjd(NearestInstant(arg.mjd2, ret.aprx)), ret.out[i].prec)

(***************************************************************************)
(* PreciseTime.get and the comparison and subtraction operators.  The cal  *)
(* list [yyyy, mm, dd, hh, MM, ss] that the comparisons read is kept as a  *)
(* sequence of integers: ss = s + u/SubUnits with 0 <= u < SubUnits is     *)
(* written as its two parts s, u, whose order as a pair is the order of    *)
(* ss.                                                                     *)
(***************************************************************************)
\* self._prec = 1e-12, as the digit count of 10^-12
Prec == 12

get(self, fmt, aprx) == convtime("mjd2", fmt, self, aprx)

CalList(cal) ==
  <<cal.year, cal.month, cal.day.d, cal.hour, cal.min, cal.sec.s, cal.sec.u>>

\* the first index at which two lists differ, 0 if one is a prefix of the other
FirstDiff(x, y) ==
  IF \E i \in 1..Len(x) : i <= Len(y) /\ x[i] # y[i]
    THEN CHOOSE i \in 1..Len(x) :
           /\ i <= Len(y) /\ x[i] # y[i]
           /\ \A j \in 1..(i - 1) : x[j] = y[j]
    ELSE 0

\* x < y of two Python lists, compared on the first four elements only
ListLessMut(x, y) ==
  LET At(i) == IF i = 0 \/ i > 4 THEN FALSE ELSE x[i] < y[i]
  IN  At(FirstDiff(x, y))

\* x < y of two Python lists
ListLess(x, y) ==
  LET At(i) == IF i = 0 THEN Len(x) < Len(y) ELSE x[i] < y[i]
  IN  At(FirstDiff(x, y))

\* x <= y of two Python lists
ListLessEq(x, y) ==
  LET At(i) == IF i = 0 THEN Len(x) <= Len(y) ELSE x[i] <= y[i]
  IN  At(FirstDiff(x, y))

\* x == y of two Python lists
ListEq(x, y) == Len(x) = Len(y) /\ FirstDiff(x, y) = 0

__lt__(self, other) ==
  ListLess(CalList(get(self, "cal", Prec)), CalList(get(other, "cal", Prec)))

__le__(self, other) ==
  ListLessEq(CalList(get(self, "cal", Prec)), CalList(get(other, "cal", Prec)))

__eq__(self, other) ==
  ListEq(CalList(get(self, "cal", Prec)), CalList(get(other, "cal", Prec)))

__ne__(self, other) ==
  ~ListEq(CalList(get(self, "cal", Prec)), CalList(get(other, "cal", Prec)))

__gt__(self, other) ==
  ListLess(CalList(get(other, "cal", Prec)), CalList(get(self, "cal", Prec)))

__ge__(self, other) ==
  ListLessEq(CalList(get(other, "cal", Prec)), CalList(get(self, "cal", Prec)))

\* DeltaTime.get("day") of the DeltaTime that __sub__ returns
__sub__(self, other) ==
  DeltaTime("day", diff_mjd2(get(self, "mjd2", NoAprx), get(other, "mjd2", NoAprx)))

\* the MJD2 stored by the PreciseTime that __add__ returns
__add__(self, other) ==
  convtime("mjd2", "mjd2", add_mjd2(get(self, "mjd2", NoAprx), other), NoAprx)

(***************************************************************************)
(* Pair specification: two PreciseTime values a and b built from valid     *)
(* payloads, then compared with the six operators, subtracted both ways,   *)
(* or a + d - a for a DeltaTime d.                                         *)
(***************************************************************************)
\* instants on both sides of the Gregorian cutover, of a month end, of a
\* leap day, of a year end and of the GPS epoch
PairPayloads ==
  {[fmt |-> "cal", val |-> Cal(c[1], c[2], DInt(c[3]), c[4], c[5], SNorm(c[6], c[7]))] :
     c \in {<<1582, 10, 4, 23, 59, 59, SubUnits - 1>>, <<1582, 10, 15, 0, 0, 0, 0>>,
            <<2015, 12, 31, 23, 59, 59, SubUnits - 1>>, <<2016, 1, 1, 0, 0, 0, 0>>,
            <<2016, 1, 1, 0, 0, 0, 1>>, <<2016, 2, 29, 12, 0, 0, 0>>,
            <<2016, 3, 1, 0, 0, 0, 0>>, <<2016, 1, 31, 23, 59, 59, 0>>,
            <<2016, 2, 1, 0, 0, 59, 0>>, <<2016, 2, 1, 0, 1, 0, 0>>}}
    \cup {[fmt |-> "mjd2", val |-> Mjd2(d, [d |-> 0, s |-> s, u |-> u])] :
            d \in {-100841, 44243, 57388}, s \in {0, 86399}, u \in {0, SubUnits - 1}}
    \cup {[fmt |-> "doy", val |-> [year |-> 2016, ddd |-> n, hour |-> 0, min |-> 0,
                                   sec |-> SInt(0)]] : n \in {1, 60, 366}}
    \cup {[fmt |-> "gps", val |-> [week |-> w, sec |-> SInt(sc)]] :
            w \in {-1, 0}, sc \in {0, 604799}}

InitPair ==
  /\ op = "input"
  /\ \E p \in PairPayloads, q \in PairPayloads : arg = [a |-> p, b |-> q]
  /\ ret = NoValue
  /\ pt = NoValue
  /\ env = UTC

ConstructPair ==
  /\ op = "input"
  /\ op' = "PreciseTime"
  /\ pt' = [a |-> convtime(arg.a.fmt, "mjd2", arg.a.val, NoAprx),
            b |-> convtime(arg.b.fmt, "mjd2", arg.b.val, NoAprx)]
  /\ UNCHANGED <<arg, ret, env>>

Compare ==
  /\ op = "PreciseTime"
  /\ op' = "compare"
  /\ ret' = [lt |-> __lt__(pt.a, pt.b), le |-> __le__(pt.a, pt.b),
             eq |-> __eq__(pt.a, pt.b), ne |-> __ne__(pt.a, pt.b),
             gt |-> __gt__(pt.a, pt.b), ge |-> __ge__(pt.a, pt.b)]
  /\ UNCHANGED <<arg, pt, env>>

Subtract ==
  /\ op = "PreciseTime"
  /\ op' = "__sub__"
  /\ ret' = [ab |-> __sub__(pt.a, pt.b), ba |-> __sub__(pt.b, pt.a)]
  /\ UNCHANGED <<arg, pt, env>>

AddSubtract ==
  /\ op = "PreciseTime"
  /\ op' = "__add__.__sub__"
  /\ \E d \in Deltas : ret' = [d |-> d, sum |-> __add__(pt.a, d),
                               diff |-> __sub__(__add__(pt.a, d), pt.a)]
  /\ UNCHANGED <<arg, pt, env>>

NextPair == ConstructPair \/ Compare \/ Subtract \/ AddSubtract

SpecPair == InitPair /\ [][NextPair]_vars

\* the instant of a normalized MJD2 a is earlier than that of b; the stored
\* instants are multiples of 10^-SubDigits s, which rounding to 10^-Prec s
\* leaves unchanged
Earlier(a, b) == a.day < b.day \/ (a.day = b.day /\ DLess(a.frac, b.frac))

\* C11: for PreciseTime values a, b with normalized MJD2, a < b holds iff the
\* instant of a is earlier than that of b, exactly one of a < b, a == b,
\* a > b holds, a <= b iff (a < b or a == b), a >= b iff (a > b or a == b),
\* and a != b iff not a == b.
C11_ChronologicalOrder ==
  (op = "compare" /\ Normalized(pt.a) /\ Normalized(pt.b)) =>
    /\ ret.lt <=> Earlier(pt.a, pt.b)
    /\ ret.gt <=> Earlier(pt.b, pt.a)
    /\ ret.eq <=> pt.a = pt.b
    /\ (ret.lt /\ ~ret.eq /\ ~ret.gt) \/ (~ret.lt /\ ret.eq /\ ~ret.gt)
         \/ (~ret.lt /\ ~ret.eq /\ ret.gt)
    /\ ret.le <=> (ret.lt \/ ret.eq)
    /\ ret.ge <=> (ret.gt \/ ret.eq)
    /\ ret.ne <=> ~ret.eq

\* a is the last modelled instant of 1582-10-04, b is 1582-10-15 00:00:00,
\* and a < b was computed
C11_Witness ==
  /\ op = "compare"
  /\ pt.a = Mjd2(-100841, [d |-> 0, s |-> 86399, u |-> SubUnits - 1])
  /\ pt.b = Mjd2(-100840, DInt(0))
  /\ ret.lt /\ ~ret.ge

\* -x for a real number of days
DNeg(x) == DNorm(-x.d, -x.s, -x.u)

\* day + frac of an MJD2
Instant(mjd2) == DAdd(DInt(mjd2.day), mjd2.frac)

\* C12: (a + d) - a is a DeltaTime whose day count is that of d, a - b is
\* (a.day - b.day) + (a.frac - b.frac), and b - a = -(a - b).
C12_SubtractInvertsAdd ==
  /\ op = "__add__.__sub__" => ret.diff = ret.d
  /\ op = "__sub__" =>
       /\ ret.ab = DSub(Instant(pt.a), Instant(pt.b))
       /\ ret.ba = DNeg(ret.ab)

\* a negative whole-day DeltaTime was added to a and a subtracted again
C12_Witness ==
  /\ op = "__add__.__sub__"
  /\ ret.d = DInt(-1)
  /\ ret.diff = DInt(-1)
  /\ ret.sum.day < pt.a.day

(***************************************************************************)
(* Object specification: one PreciseTime and the list objects that it and  *)
(* its caller hold.  pt.heap is the sequence of list objects, pt.val the   *)
(* index of the object that self._val refers to, pt.held the indices of    *)
(* the objects the caller has a reference to (the payload list passed to   *)
(* the constructor, the lists returned by get), pt.made the value of       *)
(* self._val right after construction.  convtime returns its data          *)
(* argument itself for "mjd2" to "mjd2", and a new object otherwise.       *)
(***************************************************************************)
\* the most list objects of one behaviour
MaxObjects == 4

ObjPayloads ==
  {[fmt |-> "mjd2", val |-> Mjd2(57022, [d |-> 0, s |-> 25920, u |-> 0])],
   [fmt |-> "mjd2", val |-> Mjd2(-100841, DInt(0))],
   [fmt |-> "cal", val |-> Cal(2015, 1, DInt(1), 0, 0, SInt(1))],
   [fmt |-> "gps", val |-> [week |-> 1825, sec |-> SInt(259200)]]}

InitObj ==
  /\ op = "input"
  /\ arg \in ObjPayloads
  /\ ret = NoValue
  /\ pt = [heap |-> <<arg.val>>, val |-> 0, held |-> {1}, made |-> NoValue]
  /\ env = UTC

\* self._val = convtime(fmt, "mjd2", val)
NewObj ==
  /\ op = "input"
  /\ op' = "PreciseTime"
  /\ pt' = IF arg.fmt = "mjd2"
             THEN [pt EXCEPT !.val = 1, !.made = pt.heap[1]]
             ELSE [pt EXCEPT !.heap = Append(@, convtime(arg.fmt, "mjd2", arg.val, NoAprx)),
                             !.val = 2,
                             !.made = convtime(arg.fmt, "mjd2", arg.val, NoAprx)]
  /\ UNCHANGED <<arg, ret, env>>

\* get("mjd2"): the caller receives self._val itself
GetMjd2 ==
  /\ op \notin {"input"}
  /\ op' = "get.mjd2"
  /\ ret' = get(pt.heap[pt.val], "mjd2", NoAprx)
  /\ pt' = [pt EXCEPT !.held = @ \cup {pt.val}]
  /\ UNCHANGED <<arg, env>>

\* get("cal"), also what to_str and the comparisons read: a new list
GetCal ==
  /\ op \notin {"input"}
  /\ Len(pt.heap) < MaxObjects
  /\ op' = "get.cal"
  /\ ret' = get(pt.heap[pt.val], "cal", NoAprx)
  /\ pt' = [pt EXCEPT !.heap = Append(@, get(pt.heap[pt.val], "cal", NoAprx)),
                      !.held = @ \cup {Len(pt.heap) + 1}]
  /\ UNCHANGED <<arg, env>>

\* self + d and (self + d) - self: add_mjd2 and clean_mjd2 build new lists
Arith ==
  /\ op \notin {"input"}
  /\ Len(pt.heap) < MaxObjects
  /\ op' = "__add__"
  /\ \E d \in {DInt(-1), HalfDay} :
       /\ ret' = __sub__(__add__(pt.heap[pt.val], d), pt.heap[pt.val])
       /\ pt' = [pt EXCEPT !.heap = Append(@, __add__(pt.heap[pt.val], d)),
                           !.held = @ \cup {Len(pt.heap) + 1}]
  /\ UNCHANGED <<arg, env>>

\* lst[0] = 0 by the caller, on a list it holds (first element of an MJD2 or
\* of a cal list)
CallerWrite ==
  /\ op \notin {"input"}
  /\ op' = "caller.write"
  /\ \E r \in pt.held :
       pt' = [pt EXCEPT !.heap[r] = IF "frac" \in DOMAIN pt.heap[r]
                                      THEN [pt.heap[r] EXCEPT !.day = 0]
                                      ELSE IF "year" \in DOMAIN pt.heap[r]
                                        THEN [pt.heap[r] EXCEPT !.year = 0]
                                        ELSE [pt.heap[r] EXCEPT !.week = 0]]
  /\ UNCHANGED <<arg, ret, env>>

NextObj == NewObj \/ GetMjd2 \/ GetCal \/ Arith \/ CallerWrite

SpecObj == InitObj /\ [][NextObj]_vars

\* C13: after any sequence of get, +, - calls and of modifications by the
\* caller of the payload list or of a list returned by get, the PreciseTime
\* holds the value it held right after construction.
C13_ValueNeverChanges == op # "input" => pt.heap[pt.val] = pt.made

(***************************************************************************)
(* last_doy(yyyy)                                                          *)
(***************************************************************************)
\* last_doy with the day-of-year of December 30
last_doyMut(yyyy) ==
  convtime("cal", "doy", Cal(yyyy, 12, DInt(30), 0, 0, SInt(0)), NoAprx).ddd

last_doy(yyyy) ==
  convtime("cal", "doy", Cal(yyyy, 12, DInt(31), 0, 0, SInt(0)), NoAprx).ddd

(***************************************************************************)
(* Output specification: the GPS, day-of-year and decimal-year outputs of  *)
(* a normalized MJD2 with their way back, doy_to_mjd2 on every day number  *)
(* of a year with its way back, and last_doy of a year.                    *)
(***************************************************************************)
\* dates around the GPS epoch (1979-12-30 is the first day of GPS week -1),
\* the MJD epoch, year ends, leap days, the Gregorian cutover, year 0,
\* negative years and the first day of the Julian Day count
OutDates ==
  {<<1979, 12, 30>>, <<1979, 12, 31>>, <<1980, 1, 5>>, <<1980, 1, 6>>, <<1980, 1, 12>>,
   <<1980, 1, 13>>, <<1858, 11, 17>>, <<2015, 1, 1>>, <<2015, 12, 31>>, <<2016, 2, 29>>,
   <<2016, 12, 31>>, <<2017, 1, 1>>, <<1582, 1, 1>>, <<1582, 10, 4>>, <<1582, 10, 15>>,
   <<1582, 12, 31>>, <<1500, 2, 29>>, <<1500, 12, 31>>, <<0, 1, 1>>, <<0, 12, 31>>,
   <<-4, 2, 29>>, <<-6, 7, 1>>, <<-5, 7, 1>>, <<-5, 12, 31>>, <<-4712, 1, 1>>}

OutInstants ==
  {cal_to_mjd2(Cal(c[1], c[2], DInt(c[3]), hh, 0, SInt(0))) : c \in OutDates, hh \in {0, 12, 23}}

\* years on both sides of the cutover, century years, year 0, negative years
DoyYears == {-4712, -5, -4, 0, 4, 1500, 1581, 1582, 1583, 1600, 1700, 1900, 2000, 2015, 2016}

InitOut ==
  /\ \/ op = "input.mjd2" /\ arg \in [mjd2 : OutInstants]
     \/ op = "input.doy" /\
          \E y \in DoyYears : \E n \in 1..last_doy(y) :
            arg = [doy |-> [year |-> y, ddd |-> n, hour |-> 12, min |-> 0, sec |-> SInt(0)]]
     \/ op = "input.yyyy" /\ arg \in [yyyy : DoyYears]
  /\ ret = NoValue
  /\ pt = NoValue
  /\ env = UTC

ToGps ==
  /\ op = "input.mjd2"
  /\ op' = "mjd2_to_gps"
  /\ ret' = [gps2 |-> convtime("mjd2", "gps2", arg.mjd2, NoAprx),
             gps |-> convtime("mjd2", "gps", arg.mjd2, NoAprx)]
  /\ UNCHANGED <<arg, pt, env>>

ToDoy ==
  /\ op = "input.mjd2"
  /\ op' = "mjd2_to_doy"
  /\ ret' = [doy |-> convtime("mjd2", "doy", arg.mjd2, NoAprx)]
  /\ UNCHANGED <<arg, pt, env>>

DoyBack ==
  /\ op = "mjd2_to_doy"
  /\ op' = "mjd2_to_doy.doy_to_mjd2"
  /\ ret' = [doy |-> ret.doy, back |-> convtime("doy", "mjd2", ret.doy, NoAprx)]
  /\ UNCHANGED <<arg, pt, env>>

FromDoy ==
  /\ op = "input.doy"
  /\ op' = "doy_to_mjd2"
  /\ ret' = [mjd2 |-> convtime("doy", "mjd2", arg.doy, NoAprx)]
  /\ UNCHANGED <<arg, pt, env>>

FromDoyBack ==
  /\ op = "doy_to_mjd2"
  /\ op' = "doy_to_mjd2.mjd2_to_doy"
  /\ ret' = [mjd2 |-> ret.mjd2, back |-> convtime("mjd2", "doy", ret.mjd2, NoAprx)]
  /\ UNCHANGED <<arg, pt, env>>

LastDoy ==
  /\ op = "input.yyyy"
  /\ op' = "last_doy"
  /\ ret' = [ddd |-> last_doy(arg.yyyy)]
  /\ UNCHANGED <<arg, pt, env>>

ToYear ==
  /\ op = "input.mjd2"
  /\ op' = "mjd2_to_year"
  /\ ret' = [year |-> convtime("mjd2", "year", arg.mjd2, NoAprx)]
  /\ UNCHANGED <<arg, pt, env>>

YearBack ==
  /\ op = "mjd2_to_year"
  /\ op' = "mjd2_to_year.year_to_mjd2"
  /\ ret' = [year |-> ret.year, back |-> convtime("year", "mjd2", ret.year, NoAprx)]
  /\ UNCHANGED <<arg, pt, env>>

YearAgain ==
  /\ op = "mjd2_to_year.year_to_mjd2"
  /\ op' = "year_to_mjd2.mjd2_to_year"
  /\ ret' = [year |-> ret.year, back |-> ret.back,
             again |-> convtime("mjd2", "year", ret.back, NoAprx)]
  /\ UNCHANGED <<arg, pt, env>>

NextOut ==
  ToGps \/ ToDoy \/ DoyBack \/ FromDoy \/ FromDoyBack \/ LastDoy \/ ToYear \/ YearBack
    \/ YearAgain

SpecOut == InitOut /\ [][NextOut]_vars

\* C16: for every normalized MJD2, before as well as after MJD 44244,
\* mjd2_to_gps2 returns week = floor((day - 44244) / 7) and dayOfWeek =
\* (day - 44244) - 7 * week in 0..6, mjd2_to_gps returns secondsOfWeek in
\* [0, 604800), and GPS week 0, second 0 is 1980-01-06 00:00:00.
C16_GpsWeekIsFloor ==
  op = "mjd2_to_gps" =>
    /\ ret.gps2.week = (arg.mjd2.day - mjd0) \div 7
    /\ ret.gps2.dow = (arg.mjd2.day - mjd0) % 7
    /\ ret.gps.week = ret.gps2.week
    /\ ret.gps.sec.s \in 0..(7 * SecPerDay - 1)
    /\ arg.mjd2 = cal_to_mjd2(Cal(1980, 1, DInt(6), 0, 0, SInt(0)))
         => ret.gps = [week |-> 0, sec |-> SInt(0)]

\* the number of existing calendar dates of year y up to month m, day d
DayNumber(y, m, d) ==
  Cardinality({c \in (1..12) \X (1..31) :
                 /\ ExistingDate(y, c[1], c[2])
                 /\ c[1] < m \/ (c[1] = m /\ c[2] <= d)})

\* C17: for every normalized MJD2 of the calendar's domain, mjd2_to_doy
\* returns the calendar year of the instant and ddd = 1 + the number of
\* whole days elapsed since January 1 of that year, 1 <= ddd <=
\* last_doy(year), and doy_to_mjd2 is its inverse for every ddd in
\* 1..last_doy(year).
C17_DayOfYear ==
  /\ op = "mjd2_to_doy" =>
       /\ ret.doy.year = mjd2_to_cal(arg.mjd2, NoAprx).year
       /\ ret.doy.ddd = DayNumber(ret.doy.year, mjd2_to_cal(arg.mjd2, NoAprx).month,
                                  mjd2_to_cal(arg.mjd2, NoAprx).day.d)
       /\ ret.doy.ddd \in 1..last_doy(ret.doy.year)
       /\ ret.doy.hour = arg.mjd2.frac.s \div 3600
  /\ op = "mjd2_to_doy.doy_to_mjd2" => ret.back = arg.mjd2
  /\ op = "doy_to_mjd2.mjd2_to_doy" => ret.back = arg.doy

\* December 31 of the cutover year was converted: day 355, and back
C17_Witness ==
  /\ op = "mjd2_to_doy.doy_to_mjd2"
  /\ ret.doy.year = 1582 /\ ret.doy.ddd = 355 /\ ret.doy.hour = 23
  /\ ret.back = arg.mjd2

\* C18 as stated: for every year, last_doy is 365 or 366, and 366 exactly
\* when the year is a leap year under the rule in force.
C18_LastDoyEveryYear ==
  op = "last_doy" =>
    /\ ret.ddd \in {365, 366}
    /\ ret.ddd = 366 <=> IsLeapInForce(arg.yyyy)

\* the year of the Gregorian cutover, in which 1582-10-05 .. 1582-10-14 do
\* not exist
CutoverYear == jd_to_date(CutoverJd).year

\* C18, amended: for every year other than the cutover year 1582, last_doy
\* is 365 or 366, and 366 exactly when the year is a leap year under the
\* rule in force; last_doy(1582) is 355.
C18_LastDoyExceptCutover ==
  op = "last_doy" =>
    IF arg.yyyy = CutoverYear
      THEN ret.ddd = 355
      ELSE /\ ret.ddd \in {365, 366}
           /\ ret.ddd = 366 <=> IsLeapInForce(arg.yyyy)

\* last_doy of a Julian century leap year was computed: 366
C18_Witness == op = "last_doy" /\ arg.yyyy = 1500 /\ ret.ddd = 366

\* the decimal year as whole + num/den with 0 <= num < den
YearFloor(year) ==
  IF year.fnum < 0
    THEN [whole |-> year.iyear - 1, num |-> year.fnum + year.fden, den |-> year.fden]
    ELSE [whole |-> year.iyear, num |-> year.fnum, den |-> year.fden]

\* C19: for every normalized MJD2 in year y, mjd2_to_year returns
\* y + (dayOfYear - 1 + frac) / daysInYear(y), a value in [y, y+1), and
\* year_to_mjd2 inverts it: mjd2 -> year -> mjd2 and year -> mjd2 -> year
\* are the identity.
C19_DecimalYearRoundTrip ==
  /\ op = "mjd2_to_year" =>
       /\ YearFloor(ret.year).whole = mjd2_to_cal(arg.mjd2, NoAprx).year
       /\ YearFloor(ret.year).den = HoursPerDay * last_doy(YearFloor(ret.year).whole)
       /\ YearFloor(ret.year).num =
            HoursPerDay * (mjd2_to_doy(arg.mjd2, NoAprx).ddd - 1)
              + (arg.mjd2.frac.s \div 3600)
       /\ YearFloor(ret.year).num \in 0..(YearFloor(ret.year).den - 1)
  /\ op = "mjd2_to_year.year_to_mjd2" => ret.back = arg.mjd2
  /\ op = "year_to_mjd2.mjd2_to_year" => ret.again = ret.year

(***************************************************************************)
(* DeltaTime.get(fmt): the stored day count in days, in seconds, or in     *)
(* years of 365.25 days (an exact quotient of seconds).                    *)
(***************************************************************************)
DeltaTime_get(self, fmt) ==
  CASE fmt = "day"  -> self
    [] fmt = "sec"  -> DaysToSec(self)
    [] fmt = "year" -> [num |-> DaysToSec(self), den |-> 365 * SecPerDay + 21600]
    [] OTHER        -> UnboundLocalError

\* a raised exception in place of a returned value
IsError(v) == "error" \in DOMAIN v

(***************************************************************************)
(* Format-name specification: convtime, PreciseTime(fmt, val) followed by  *)
(* get(fmt), and DeltaTime(fmt, val) followed by get(fmt), with format     *)
(* names inside and outside the supported lists.                           *)
(***************************************************************************)
\* names that are not formats: a time scale, a format in upper case, the
\* empty string
UnknownNames == {"utc", "MJD", ""}

FormatNames == InFormats \cup UnknownNames

\* the units of DeltaTime
DeltaUnits == {"day", "sec", "year"}

UnitNames == DeltaUnits \cup {"mjd", "days", ""}

\* the payload that comes with a format name: one of the format, from
\* 1970 on so that every output format has a value for it, or an MJD2 or a
\* plain number with a name that is no format
NamePayloads(fmt) ==
  IF fmt \in InFormats
    THEN {x \in CtorPayloads(fmt) :
            /\ fmt = "mjd2" => Normalized(x)
            /\ convtime_in(fmt, x).day >= sec_to_mjd2(SInt(0)).day}
    ELSE {Mjd2(57022, DNorm(0, 43200, 0)), DInt(57022)}

DeltaPayloads(fmt) == IF fmt = "year" THEN {-1, 1, 4} ELSE {DNorm(0, -21600, 0), DInt(1)}

InitName ==
  /\ env = UTC
  /\ op = "input"
  /\ \/ \E ifmt \in FormatNames, ofmt \in FormatNames : \E x \in NamePayloads(ifmt) :
          arg = [call |-> "convtime", fmt |-> ifmt, ofmt |-> ofmt, val |-> x]
     \/ \E ifmt \in FormatNames, ofmt \in FormatNames : \E x \in NamePayloads(ifmt) :
          arg = [call |-> "PreciseTime", fmt |-> ifmt, ofmt |-> ofmt, val |-> x]
     \/ \E ifmt \in UnitNames, ofmt \in UnitNames : \E x \in DeltaPayloads(ifmt) :
          arg = [call |-> "DeltaTime", fmt |-> ifmt, ofmt |-> ofmt, val |-> x]
  /\ ret = NoValue
  /\ pt = NoValue

CallConvtime ==
  /\ op = "input" /\ arg.call = "convtime"
  /\ op' = "convtime"
  /\ ret' = convtime(arg.fmt, arg.ofmt, arg.val, NoAprx)
  /\ UNCHANGED <<arg, pt, env>>

NewPreciseTime ==
  /\ op = "input" /\ arg.call = "PreciseTime"
  /\ op' = "PreciseTime"
  /\ pt' = convtime(arg.fmt, "mjd2", arg.val, NoAprx)
  /\ UNCHANGED <<arg, ret, env>>

PreciseTimeGet ==
  /\ op = "PreciseTime" /\ ~IsError(pt)
  /\ op' = "PreciseTime.get"
  /\ ret' = get(pt, arg.ofmt, NoAprx)
  /\ UNCHANGED <<arg, pt, env>>

NewDeltaTime ==
  /\ op = "input" /\ arg.call = "DeltaTime"
  /\ op' = "DeltaTime"
  /\ pt' = DeltaTime(arg.fmt, arg.val)
  /\ UNCHANGED <<arg, ret, env>>

DeltaTimeGet ==
  /\ op = "DeltaTime" /\ ~IsError(pt)
  /\ op' = "DeltaTime.get"
  /\ ret' = DeltaTime_get(pt, arg.ofmt)
  /\ UNCHANGED <<arg, pt, env>>

NextName == CallConvtime \/ NewPreciseTime \/ PreciseTimeGet \/ NewDeltaTime \/ DeltaTimeGet

SpecName == InitName /\ [][NextName]_vars

\* C14: a format name outside the supported list, given as input format or
\* as output format of convtime, to PreciseTime(fmt, ...), to
\* PreciseTime.get(fmt), or as the unit of DeltaTime, always ends in an
\* error: no value is returned and no other format is used instead.
C14_UnknownFormatFails ==
  /\ (op = "convtime" /\ (arg.fmt \notin InFormats \/ arg.ofmt \notin OutFormats))
       => IsError(ret)
  /\ (op = "PreciseTime" /\ arg.fmt \notin InFormats) => IsError(pt)
  /\ (op = "PreciseTime.get" /\ arg.ofmt \notin OutFormats) => IsError(ret)
  /\ (op = "DeltaTime" /\ arg.fmt \notin DeltaUnits) => IsError(pt)
  /\ (op = "DeltaTime.get" /\ arg.ofmt \notin DeltaUnits) => IsError(ret)

\* a PreciseTime made from a calendar date was asked for a format in upper
\* case and raised
C14_Witness ==
  /\ op = "PreciseTime.get"
  /\ arg.fmt = "cal" /\ arg.ofmt = "MJD"
  /\ ~IsError(pt)
  /\ IsError(ret)

(***************************************************************************)
(* Field specification: convtime from the calendar-like formats cal, doy   *)
(* and gps2 with fields inside and outside their ranges.                   *)
(***************************************************************************)
FieldMonths == {0, 1, 12, 13}

FieldMinutes == {-3, 0, 59, 61}

FieldSeconds == {-1, 0, 59, 75}

FieldPayloads(fmt) ==
  CASE fmt = "cal"  -> {Cal(2015, mm, DInt(1), 0, mi, SInt(ss)) :
                          mm \in FieldMonths, mi \in FieldMinutes, ss \in FieldSeconds}
    [] fmt = "doy"  -> {[year |-> 2015, ddd |-> 1, hour |-> 0, min |-> mi, sec |-> SInt(ss)] :
                          mi \in FieldMinutes, ss \in FieldSeconds}
    [] fmt = "gps2" -> {[week |-> 1825, dow |-> 3, hour |-> 0, min |-> mi, sec |-> SInt(ss)] :
                          mi \in FieldMinutes, ss \in FieldSeconds}

InitField ==
  /\ op = "input"
  /\ \E fmt \in {"cal", "doy", "gps2"} : \E x \in FieldPayloads(fmt) :
       arg = [fmt |-> fmt, val |-> x]
  /\ ret = NoValue
  /\ pt = NoValue
  /\ env = UTC

FieldToMjd2 ==
  /\ op = "input"
  /\ op' = "convtime.mjd2"
  /\ ret' = convtime(arg.fmt, "mjd2", arg.val, NoAprx)
  /\ UNCHANGED <<arg, pt, env>>

FieldToCal ==
  /\ op = "input"
  /\ op' = "convtime.cal"
  /\ ret' = convtime(arg.fmt, "cal", arg.val, NoAprx)
  /\ UNCHANGED <<arg, pt, env>>

NextField == FieldToMjd2 \/ FieldToCal

SpecField == InitField /\ [][NextField]_vars

\* a month outside 1..12, a minute outside 0..59 or a second outside [0, 60)
OutOfRange(fmt, x) ==
  \/ fmt = "cal" /\ x.month \notin 1..12
  \/ x.min \notin 0..59
  \/ x.sec.s \notin 0..59

\* C15: a conversion from a cal, doy or gps2 payload whose month is outside
\* 1..12, or whose minute or second is outside its bounds, fails with an
\* error and returns no value; it never produces an MJD2 or a converted
\* value computed from the out-of-range field.
C15_OutOfRangeFieldFails ==
  (op \in {"convtime.mjd2", "convtime.cal"} /\ OutOfRange(arg.fmt, arg.val)) => IsError(ret)

(***************************************************************************)
(* POSIX-seconds specification: sec_to_mjd2 and mjd2_to_sec are applied    *)
(* to the same input in two environments, env and then arg.tz, the local   *)
(* timezone offsets of the process east of UTC in seconds.                 *)
(***************************************************************************)
\* UTC, America/New_York (standard time) and Asia/Kolkata
TimezoneOffsets == {UTC, -18000, 19800}

SecPayloads ==
  {SInt(0), SInt(1), SInt(43200), SInt(86399), SInt(100000), SNorm(100000, 1),
   SInt(365 * SecPerDay)}

SecInstants ==
  {Mjd2(40587, DInt(0)), Mjd2(40587, DNorm(0, 43200, 0)), Mjd2(40587, DNorm(0, 86399, 0)),
   Mjd2(40588, DNorm(0, 13600, 1)), Mjd2(40588, DNorm(0, 1, 700000)), Mjd2(40952, DInt(0))}

InitSec ==
  /\ op = "input"
  /\ env \in TimezoneOffsets
  /\ \E tz \in TimezoneOffsets :
       \/ \E x \in SecPayloads : arg = [fmt |-> "sec", val |-> x, tz |-> tz]
       \/ \E x \in SecInstants : arg = [fmt |-> "mjd2", val |-> x, tz |-> tz]
  /\ ret = NoValue
  /\ pt = NoValue

FromSec ==
  /\ op = "input" /\ arg.fmt = "sec"
  /\ op' = "sec_to_mjd2"
  /\ ret' = [first |-> convtime("sec", "mjd2", arg.val, NoAprx)]
  /\ UNCHANGED <<arg, pt, env>>

ToSec ==
  /\ op = "input" /\ arg.fmt = "mjd2"
  /\ op' = "mjd2_to_sec"
  /\ ret' = [first |-> convtime("mjd2", "sec", arg.val, NoAprx)]
  /\ UNCHANGED <<arg, pt, env>>

\* the process's local timezone becomes arg.tz
SetTimezone ==
  /\ op \in {"sec_to_mjd2", "mjd2_to_sec"}
  /\ op' = "timezone"
  /\ env' = arg.tz
  /\ UNCHANGED <<arg, ret, pt>>

FromSecAgain ==
  /\ op = "timezone" /\ arg.fmt = "sec"
  /\ op' = "sec_to_mjd2.again"
  /\ ret' = [first |-> ret.first, second |-> convtime("sec", "mjd2", arg.val, NoAprx)]
  /\ UNCHANGED <<arg, pt, env>>

ToSecAgain ==
  /\ op = "timezone" /\ arg.fmt = "mjd2"
  /\ op' = "mjd2_to_sec.again"
  /\ ret' = [first |-> ret.first, second |-> convtime("mjd2", "sec", arg.val, NoAprx)]
  /\ UNCHANGED <<arg, pt, env>>

NextSec == FromSec \/ ToSec \/ SetTimezone \/ FromSecAgain \/ ToSecAgain

SpecSec == InitSec /\ [][NextSec]_vars

\* C20: sec_to_mjd2 and mjd2_to_sec give the same result in two
\* environments that differ only in the process's local timezone offset,
\* and POSIX second 0 corresponds to 1970-01-01 00:00:00, MJD 40587 with
\* frac 0.
C20_SecIsUtcOnly ==
  /\ op \in {"sec_to_mjd2.again", "mjd2_to_sec.again"} => ret.second = ret.first
  /\ (op = "sec_to_mjd2" /\ arg.val = SInt(0)) => ret.first = Mjd2(40587, DInt(0))
  /\ (op = "mjd2_to_sec" /\ arg.val = Mjd2(40587, DInt(0))) => ret.first = SInt(0)

(***************************************************************************)
(* POSIX round-trip specification: convtime("sec", "sec", x) for POSIX     *)
(* times x at microsecond resolution and convtime("mjd2", "datetime", m)   *)
(* for normalized MJD2 m, in each local timezone.  The fractions are not   *)
(* exact halves of a second, where round() of the double decides.          *)
(***************************************************************************)
TripSeconds ==
  {SNorm(s, u) : s \in {0, 1, 59, 86399, 100000},
                 u \in {0, 1, 250000, 499999, 500001, 700000, 999999}}

TripInstants ==
  {Mjd2(d, DNorm(0, s, u)) : d \in {40587, 57023}, s \in {0, 59, 43200, 86399},
                             u \in {0, 499999, 500001, 999999}}

InitTrip ==
  /\ env \in TimezoneOffsets
  /\ op = "input"
  /\ \/ \E x \in TripSeconds : arg = [fmt |-> "sec", val |-> x]
     \/ \E m \in TripInstants : arg = [fmt |-> "mjd2", val |-> m]
  /\ ret = NoValue
  /\ pt = NoValue

SecToSec ==
  /\ op = "input" /\ arg.fmt = "sec"
  /\ op' = "sec.sec"
  /\ ret' = convtime("sec", "sec", arg.val, NoAprx)
  /\ UNCHANGED <<arg, pt, env>>

ToDatetime ==
  /\ op = "input" /\ arg.fmt = "mjd2"
  /\ op' = "mjd2.datetime"
  /\ ret' = convtime("mjd2", "datetime", arg.val, NoAprx)
  /\ UNCHANGED <<arg, pt, env>>

NextTrip == SecToSec \/ ToDatetime

SpecTrip == InitTrip /\ [][NextTrip]_vars

\* C21: convtime("sec", "sec", x) ends without error and returns x for
\* every POSIX time x at microsecond resolution, and convtime("mjd2",
\* "datetime", m) ends without error for every normalized MJD2 m and gives
\* second in 0..59 and microsecond in 0..999999.
C21_SecRoundTrip ==
  /\ op = "sec.sec" => ret = arg.val
  /\ op = "mjd2.datetime" =>
       /\ ~IsError(ret)
       /\ ret.second \in 0..59
       /\ ret.microsecond \in 0..999999

(***************************************************************************)
(* Time-of-day specification: hmsm_to_days on a time of day followed by    *)
(* days_to_hmsm on its result, and days_to_hmsm on a number of days on     *)
(* both sides of 1.                                                        *)
(***************************************************************************)
HmsmInputs ==
  {[hour |-> h, min |-> m, sec |-> s, micro |-> u] :
     h \in {0, 6, 12, 23}, m \in {0, 30, 59}, s \in {0, 1, 59},
     u \in {0, 1, SubUnits \div 2, SubUnits - 1}}

DaysInputs ==
  {DNorm(d, s, u) : d \in {0, 1, 2}, s \in {0, 21600, 43200, 86399}, u \in {0, SubUnits - 1}}

InitHmsm ==
  /\ op = "input"
  /\ \/ \E x \in HmsmInputs : arg = x
     \/ \E x \in DaysInputs : arg = [days |-> x]
  /\ ret = NoValue
  /\ pt = NoValue
  /\ env = UTC

HmsmToDays ==
  /\ op = "input" /\ "hour" \in DOMAIN arg
  /\ op' = "hmsm_to_days"
  /\ ret' = [days |-> hmsm_to_days(arg.hour, arg.min, arg.sec, arg.micro)]
  /\ UNCHANGED <<arg, pt, env>>

HmsmBack ==
  /\ op = "hmsm_to_days"
  /\ op' = "hmsm_to_days.days_to_hmsm"
  /\ ret' = [days |-> ret.days, hmsm |-> days_to_hmsm(ret.days)]
  /\ UNCHANGED <<arg, pt, env>>

DaysToHmsm ==
  /\ op = "input" /\ "days" \in DOMAIN arg
  /\ op' = "days_to_hmsm"
  /\ ret' = days_to_hmsm(arg.days)
  /\ UNCHANGED <<arg, pt, env>>

NextHmsm == HmsmToDays \/ HmsmBack \/ DaysToHmsm

SpecHmsm == InitHmsm /\ [][NextHmsm]_vars

\* C22: for hour in 0..23, minute and second in 0..59 and a microsecond
\* value in [0, 1e6), hmsm_to_days is in [0, 1) and days_to_hmsm of it is
\* (hour, min, sec, micro) again, in exact arithmetic; hmsm_to_days(6, 0,
\* 0, 0) is 1/4.
C22_HmsmRoundTrip ==
  /\ op \in {"hmsm_to_days", "hmsm_to_days.days_to_hmsm"} =>
       /\ ret.days.d = 0
       /\ (arg.hour = 6 /\ arg.min = 0 /\ arg.sec = 0 /\ arg.micro = 0) =>
            ret.days = [d |-> 0, s |-> SecPerDay \div 4, u |-> 0]
  /\ op = "hmsm_to_days.days_to_hmsm" => ret.hmsm = arg

\* 23:59:59 and the largest modelled fraction of a second came back
C22_Witness ==
  /\ op = "hmsm_to_days.days_to_hmsm"
  /\ arg = [hour |-> 23, min |-> 59, sec |-> 59, micro |-> SubUnits - 1]
  /\ ret.hmsm.hour = 23 /\ ret.hmsm.min = 59 /\ ret.hmsm.sec = 59
  /\ ret.hmsm.micro = SubUnits - 1

\* C27: days_to_hmsm ends in ValueError and returns no tuple when days >= 1,
\* and returns hour in 0..23 for days in [0, 1).
C27_DaysBelowOne ==
  op = "days_to_hmsm" =>
    IF arg.days.d >= 1 THEN IsError(ret) ELSE ret.hour \in 0..23

(***************************************************************************)
(* Template specification: format_time on templates that also hold text    *)
(* between tokens, a bracketed name that is no keyword, and SS, DSEC and   *)
(* MJD tokens without digits.                                              *)
(***************************************************************************)
Keywords == {"WWWW", "D", "YYYY", "YY", "DDD", "MM", "DD", "HH", "MN", "MJD", "SS", "DSEC"}

TplTokens ==
  {Token(kd, NoPrec) : kd \in {"text", "XX", "YYYY", "MN", "SS", "DSEC", "MJD"}}
    \cup {Token("SS", 0), Token("SS", 3), Token("DSEC", 3), Token("MJD", 3)}

TplTemplates == SeqsUpTo(TplTokens, MaxTokens) \ {<<>>}

\* 2019-02-11 11:59:59.55 and 2019-12-31 23:59:59.9996
TplInstants ==
  {Mjd2(58525, [d |-> 0, s |-> 43199, u |-> 550000]),
   Mjd2(58848, [d |-> 0, s |-> 86399, u |-> 999600])}

InitTpl ==
  /\ op = "input"
  /\ \E istr \in TplTemplates, mjd2 \in TplInstants : arg = [istr |-> istr, mjd2 |-> mjd2]
  /\ ret = NoValue
  /\ pt = NoValue
  /\ env = UTC

FormatTpl ==
  /\ op = "input"
  /\ op' = "format_time"
  /\ pt' = convtime("mjd2", "mjd2", arg.mjd2, NoAprx)
  /\ ret' = format_time(arg.istr, convtime("mjd2", "mjd2", pt', NoAprx))
  /\ UNCHANGED <<arg, env>>

NextTpl == FormatTpl

SpecTpl == InitTpl /\ [][NextTpl]_vars

\* an SS, DSEC or MJD token without digits before the closing bracket
Bare(tok) == tok.kind \in {"SS", "DSEC", "MJD"} /\ tok.prec = NoPrec

\* C23: a template with an SS, DSEC or MJD token without digits is accepted
\* by format_time, and the token is rendered instead of the call ending in
\* an error.
C23_PrecisionOptional ==
  (op = "format_time" /\ \E i \in 1..Len(arg.istr) : Bare(arg.istr[i])) =>
    /\ ~IsError(ret)
    /\ \A i \in 1..Len(arg.istr) : Bare(arg.istr[i]) => ret.out[i].done

\* C24: in an output of format_time every token that is no keyword and all
\* text between tokens is unchanged and in its place, and every occurrence
\* of a keyword token is replaced by its value (templates whose SS, DSEC
\* and MJD tokens all carry digits).
C24_OnlyTokensChange ==
  (op = "format_time" /\ \A i \in 1..Len(arg.istr) : ~Bare(arg.istr[i])) =>
    /\ Len(ret.out) = Len(arg.istr)
    /\ \A i \in 1..Len(arg.istr) :
         /\ ret.out[i].kind = arg.istr[i].kind
         /\ ret.out[i].prec = arg.istr[i].prec
         /\ ret.out[i].done <=> arg.istr[i].kind \in Keywords

\* ---------------------------------------------------------------------------
\* Two-digit years: yy_to_yyyy and yyyy_to_yy, each followed by the other
\* ---------------------------------------------------------------------------

TwoDigitYears == 0..99

CenturyYears == 1980..2079

InitYy ==
  /\ op = "input"
  /\ \/ \E yy \in TwoDigitYears : arg = [yy |-> yy]
     \/ \E yyyy \in CenturyYears : arg = [yyyy |-> yyyy]
  /\ ret = NoValue
  /\ pt = NoValue
  /\ env = UTC

YyToYyyy ==
  /\ op = "input" /\ "yy" \in DOMAIN arg
  /\ op' = "yy_to_yyyy"
  /\ ret' = [yyyy |-> yy_to_yyyy(arg.yy)]
  /\ UNCHANGED <<arg, pt, env>>

YyyyBack ==
  /\ op = "yy_to_yyyy"
  /\ op' = "yy_to_yyyy.yyyy_to_yy"
  /\ ret' = [yyyy |-> ret.yyyy, yy |-> yyyy_to_yy(ret.yyyy)]
  /\ UNCHANGED <<arg, pt, env>>

YyyyToYy ==
  /\ op = "input" /\ "yyyy" \in DOMAIN arg
  /\ op' = "yyyy_to_yy"
  /\ ret' = [yy |-> yyyy_to_yy(arg.yyyy)]
  /\ UNCHANGED <<arg, pt, env>>

YyBack ==
  /\ op = "yyyy_to_yy"
  /\ op' = "yyyy_to_yy.yy_to_yyyy"
  /\ ret' = [yy |-> ret.yy, yyyy |-> yy_to_yyyy(ret.yy)]
  /\ UNCHANGED <<arg, pt, env>>

NextYy == YyToYyyy \/ YyyyBack \/ YyyyToYy \/ YyBack

SpecYy == InitYy /\ [][NextYy]_vars

\* C26: yy_to_yyyy gives 2000 + yy for yy < 80 and 1900 + yy for yy >= 80,
\* yyyy_to_yy(yy_to_yyyy(yy)) = yy for yy in 0..99, and
\* yy_to_yyyy(yyyy_to_yy(y)) = y for y in 1980..2079.
C26_TwoDigitYear ==
  /\ op \in {"yy_to_yyyy", "yy_to_yyyy.yyyy_to_yy"} =>
       /\ arg.yy < 80 => ret.yyyy = 2000 + arg.yy
       /\ arg.yy >= 80 => ret.yyyy = 1900 + arg.yy
  /\ op = "yy_to_yyyy.yyyy_to_yy" => ret.yy = arg.yy
  /\ op = "yyyy_to_yy.yy_to_yyyy" => ret.yyyy = arg.yyyy

\* both sides of the pivot came back: 79 through 2079 and 1980 through 80
C26_Witness ==
  \/ /\ op = "yy_to_yyyy.yyyy_to_yy" /\ arg.yy = 79 /\ ret.yyyy = 2079 /\ ret.yy = 79
  \/ /\ op = "yyyy_to_yy.yy_to_yyyy" /\ arg.yyyy = 1980 /\ ret.yy = 80
     /\ ret.yyyy = 1980

\* ---------------------------------------------------------------------------
\* Day count: date_to_jd of an existing calendar date and of the date that
\* follows it in the calendar
\* ---------------------------------------------------------------------------

\* the day after an existing date: 1582-10-04 is followed by 1582-10-15
NextDate(y, m, d) ==
  IF y = 1582 /\ m = 10 /\ d = 4 THEN [year |-> y, month |-> m, day |-> 15]
  ELSE IF d < MonthLength(y, m) THEN [year |-> y, month |-> m, day |-> d + 1]
  ELSE IF m < 12 THEN [year |-> y, month |-> m + 1, day |-> 1]
  ELSE [year |-> y + 1, month |-> 1, day |-> 1]

InitSucc ==
  /\ op = "date"
  /\ \E y \in CalYears, m \in 1..12, d \in 1..31 :
       /\ ExistingDate(y, m, d)
       /\ arg = [year |-> y, month |-> m, day |-> d]
  /\ ret = NoValue
  /\ pt = NoValue
  /\ env = UTC

EncodeDay ==
  /\ op = "date"
  /\ op' = "date_to_jd"
  /\ ret' = [jd |-> date_to_jd(arg.year, arg.month, DInt(arg.day)),
             mjd2 |-> cal_to_mjd2(Cal(arg.year, arg.month, DInt(arg.day), 0, 0, SInt(0)))]
  /\ UNCHANGED <<arg, pt, env>>

EncodeNextDay ==
  /\ op = "date_to_jd"
  /\ op' = "date_to_jd.next"
  /\ \E n \in {NextDate(arg.year, arg.month, arg.day)} :
       ret' = [jd |-> ret.jd, mjd2 |-> ret.mjd2, next |-> n,
               jd_next |-> date_to_jd(n.year, n.month, DInt(n.day))]
  /\ UNCHANGED <<arg, pt, env>>

NextSucc == EncodeDay \/ EncodeNextDay

SpecSucc == InitSucc /\ [][NextSucc]_vars

\* C28: for every existing calendar date d and the date d' that follows it
\* (month ends, February 28 and 29, December 31, year 0 and negative years,
\* 1582-10-04 to 1582-10-15), date_to_jd(d') = date_to_jd(d) + 1; and
\* cal_to_mjd2 of 1980-01-06 has day 44244.
C28_CountsDays ==
  /\ op = "date_to_jd.next" =>
       /\ ExistingDate(ret.next.year, ret.next.month, ret.next.day)
       /\ ret.jd_next = DAdd(ret.jd, DInt(1))
  /\ (op \in {"date_to_jd", "date_to_jd.next"}
        /\ arg = [year |-> 1980, month |-> 1, day |-> 6]) =>
       ret.mjd2.day = 44244

\* the day after February 29 of year 0, whose yearp is -1, was encoded
C28_Witness ==
  /\ op = "date_to_jd.next"
  /\ arg = [year |-> 0, month |-> 2, day |-> 29]
  /\ ret.next = [year |-> 0, month |-> 3, day |-> 1]
  /\ ret.jd_next = DAdd(ret.jd, DInt(1))

\* ---------------------------------------------------------------------------
\* Sum specification: two PreciseTime values a and b as in the Pair
\* specification, then a + (b - a), compared with b and read as a calendar
\* date
\* ---------------------------------------------------------------------------

AddDifference ==
  /\ op = "PreciseTime"
  /\ op' = "__add__(__sub__)"
  /\ ret' = Only({[diff |-> __sub__(pt.b, pt.a), sum |-> sum, eq |-> __eq__(sum, pt.b),
                   cal |-> get(sum, "cal", NoAprx)] :
                    sum \in {__add__(pt.a, __sub__(pt.b, pt.a))}})
  /\ UNCHANGED <<arg, pt, env>>

NextSum == ConstructPair \/ AddDifference

SpecSum == InitPair /\ [][NextSum]_vars

\* C29: for PreciseTime values a and b with normalized MJD2, a + (b - a) == b
\* and get("cal") of a + (b - a) has hour in 0..23, minute in 0..59 and
\* second in [0, 60).
C29_AddDifference ==
  (op = "__add__(__sub__)" /\ Normalized(pt.a) /\ Normalized(pt.b)) =>
    /\ ret.eq
    /\ ret.cal.hour \in 0..23
    /\ ret.cal.min \in 0..59
    /\ ret.cal.sec.s \in 0..59

\* ---------------------------------------------------------------------------
\* Day-field specification: cal_to_mjd2 of calendar payloads whose day field
\* is a whole day or carries a fraction of a day
\* ---------------------------------------------------------------------------

\* the fraction of a day carried by the day field: 0, 1/4, 1/2 and the
\* largest modelled fraction
DayFieldFracs ==
  {DNorm(0, 0, 0), DNorm(0, 21600, 0), DNorm(0, 43200, 0), DNorm(0, 86399, SubUnits - 1)}

DayFieldPayloads ==
  {[date |-> [year |-> c[1], month |-> c[2], day |-> c[3]], frac |-> f,
    hour |-> hh, min |-> mn, sec |-> ss] :
     c \in {<<1582, 10, 4>>, <<1858, 11, 17>>, <<2015, 1, 1>>, <<2016, 2, 29>>},
     f \in DayFieldFracs, hh \in {0, 6, 23}, mn \in {0, 30},
     ss \in {SInt(0), SNorm(1, SubUnits \div 2)}}

InitDay ==
  /\ op = "input"
  /\ arg \in DayFieldPayloads
  /\ ret = NoValue
  /\ pt = NoValue
  /\ env = UTC

CalToMjd2 ==
  /\ op = "input"
  /\ op' = "cal_to_mjd2"
  /\ ret' = cal_to_mjd2(Cal(arg.date.year, arg.date.month,
                            DAdd(DInt(arg.date.day), arg.frac),
                            arg.hour, arg.min, arg.sec))
  /\ UNCHANGED <<arg, pt, env>>

NextDay == CalToMjd2

SpecDay == InitDay /\ [][NextDay]_vars

\* C30: for a cal payload (y, m, d + f, h, mn, s) with integer d and
\* 0 <= f < 1, the MJD2 that cal_to_mjd2 returns is the instant
\* MJD(y, m, d) + f + hmsm_to_days(h, mn, s).
C30_DayFractionKept ==
  op = "cal_to_mjd2" =>
    Instant(ret) =
      DAdd(DAdd(jd_to_mjd(date_to_jd(arg.date.year, arg.date.month, DInt(arg.date.day))),
                arg.frac),
           SecToDays(SNorm(arg.hour * 3600 + arg.min * 60 + arg.sec.s, arg.sec.u)))

(***************************************************************************)
(* IEEE-754 double arithmetic, exact.  A double that is zero or positive   *)
(* and normal is [m, e] with the value m * 2^e, 2^52 <= m < 2^53, or       *)
(* m = 0; m is a natural number of any size, written as its sequence of    *)
(* digits in base 2^10, least digit first and no zero digit last (<<>> is  *)
(* 0).  Every operation returns the double nearest to the exact result,    *)
(* ties to the even mantissa, as the hardware does.  An operand that is a  *)
(* Python int, or a float literal with an integer value (60., 1.e6), is an *)
(* integer here.                                                           *)
(***************************************************************************)
\* binary digits in one digit of a natural number; 10^6 times a digit stays
\* below 2^31
LimbBits == 10

LimbBase == Pow2(LimbBits)

\* binary digits of the mantissa of a double
MantBits == 53

Lo(a) == IF a = <<>> THEN 0 ELSE a[1]

Rest(a) == IF a = <<>> THEN <<>> ELSE Tail(a)

RECURSIVE BTrim(_)
BTrim(a) == IF a # <<>> /\ a[Len(a)] = 0 THEN BTrim(SubSeq(a, 1, Len(a) - 1)) ELSE a

RECURSIVE BOfInt(_)
BOfInt(n) == IF n = 0 THEN <<>> ELSE <<n % LimbBase>> \o BOfInt(n \div LimbBase)

RECURSIVE BToInt(_)
BToInt(a) == IF a = <<>> THEN 0 ELSE a[1] + LimbBase * BToInt(Tail(a))

\* a * c + carry, for 1 <= c <= 10^6 and 0 <= carry <= c
RECURSIVE BMulAdd(_, _, _)
BMulAdd(a, c, carry) ==
  IF a = <<>> THEN BOfInt(carry)
  ELSE <<(a[1] * c + carry) % LimbBase>>
         \o BMulAdd(Tail(a), c, (a[1] * c + carry) \div LimbBase)

\* quotient (which may end in zero digits) and remainder of a by c,
\* 1 <= c <= 10^6
RECURSIVE BDivRem(_, _)
BDivRem(a, c) ==
  IF a = <<>> THEN [q |-> <<>>, r |-> 0]
  ELSE Only({[q |-> <<(t.r * LimbBase + a[1]) \div c>> \o t.q,
              r |-> (t.r * LimbBase + a[1]) % c] : t \in {BDivRem(Tail(a), c)}})

RECURSIVE BAdd(_, _, _)
BAdd(a, b, carry) ==
  IF a = <<>> /\ b = <<>> THEN BOfInt(carry)
  ELSE <<(Lo(a) + Lo(b) + carry) % LimbBase>>
         \o BAdd(Rest(a), Rest(b), (Lo(a) + Lo(b) + carry) \div LimbBase)

\* a - b - borrow for a >= b + borrow (the result may end in zero digits)
RECURSIVE BSub(_, _, _)
BSub(a, b, borrow) ==
  IF a = <<>> THEN <<>>
  ELSE <<(a[1] - Lo(b) - borrow) % LimbBase>>
         \o BSub(Tail(a), Rest(b), IF a[1] - Lo(b) - borrow < 0 THEN 1 ELSE 0)

BLess(a, b) ==
  IF Len(a) # Len(b) THEN Len(a) < Len(b)
  ELSE \E i \in 1..Len(a) : a[i] < b[i] /\ \A j \in (i + 1)..Len(a) : a[j] = b[j]

\* the number of binary digits of a
BitLen(a) ==
  IF a = <<>> THEN 0
  ELSE (Len(a) - 1) * LimbBits
         + (CHOOSE k \in 1..LimbBits : Pow2(k - 1) <= a[Len(a)] /\ a[Len(a)] < Pow2(k))

\* a * 2^k
BShl(a, k) ==
  IF a = <<>> THEN <<>>
  ELSE [i \in 1..(k \div LimbBits) |-> 0] \o BMulAdd(a, Pow2(k % LimbBits), 0)

\* a div 2^k, and whether a binary digit that is 1 was dropped
BShr(a, k) ==
  LET n == IF k \div LimbBits < Len(a) THEN k \div LimbBits ELSE Len(a)
  IN  Only({[q |-> BTrim(t.q),
             nz |-> t.r # 0 \/ \E i \in 1..n : a[i] # 0] :
              t \in {BDivRem(SubSeq(a, n + 1, Len(a)), Pow2(k - n * LimbBits))}})

FZero == [m |-> <<>>, e |-> 0]

\* the double nearest to P * 2^e, or to a number between P * 2^e and
\* (P + 1) * 2^e when sticky is set; ties to even
FRound(P, sticky, e) ==
  LET shift == BitLen(P) - MantBits
      Carry(m) == IF BitLen(m) > MantBits
                    THEN [m |-> BTrim(BDivRem(m, 2).q), e |-> e + shift + 1]
                    ELSE [m |-> m, e |-> e + shift]
      Up(q, guard, rest) ==
        IF guard /\ (rest \/ Lo(q) % 2 = 1) THEN Carry(BAdd(q, <<1>>, 0)) ELSE Carry(q)
  IN  IF P = <<>> THEN FZero
      ELSE IF shift <= 0 THEN [m |-> BShl(P, -shift), e |-> e + shift]
      ELSE Only({Up(BTrim(BDivRem(t.q, 2).q), Lo(t.q) % 2 = 1, sticky \/ t.nz) :
                   t \in {BShr(P, shift - 1)}})

\* float(k) of a Python int k >= 0
FromInt(k) == FRound(BOfInt(k), FALSE, 0)

\* x * c, c an integer in 1..10^6
FMulInt(x, c) == FRound(BMulAdd(x.m, c, 0), FALSE, x.e)

\* binary digits added to the dividend, so that the quotient has more than
\* MantBits + 1 of them
DivShift == 30

\* x / c, c an integer in 1..10^6
FDivInt(x, c) ==
  Only({FRound(BTrim(t.q), t.r # 0, x.e - DivShift) :
          t \in {BDivRem(BShl(x.m, DivShift), c)}})

\* x + y
FAdd(x, y) ==
  IF x.m = <<>> THEN y
  ELSE IF y.m = <<>> THEN x
  ELSE Only({FRound(BAdd(BShl(x.m, x.e - e), BShl(y.m, y.e - e), 0), FALSE, e) :
               e \in {IF x.e < y.e THEN x.e ELSE y.e}})

\* x - y for x >= y
FSub(x, y) ==
  IF y.m = <<>> THEN x
  ELSE Only({FRound(BTrim(BSub(BShl(x.m, x.e - e), BShl(y.m, y.e - e), 0)), FALSE, e) :
               e \in {IF x.e < y.e THEN x.e ELSE y.e}})

\* int(x), for x < 2^31
FInt(x) ==
  IF x.m = <<>> \/ x.e + MantBits <= 0 THEN 0
  ELSE IF x.e >= 0 THEN BToInt(BShl(x.m, x.e))
  ELSE BToInt(BShr(x.m, -x.e).q)

\* |x - y| <= 10^-12 * y in the real numbers
FClose(x, y) ==
  LET Within(a, b) ==
        ~BLess(b, BMulAdd(BMulAdd(IF BLess(a, b) THEN BTrim(BSub(b, a, 0))
                                                  ELSE BTrim(BSub(a, b, 0)),
                                  1000000, 0),
                          1000000, 0))
  IN  Only({Within(BShl(x.m, x.e - e), BShl(y.m, y.e - e)) :
              e \in {IF x.e < y.e THEN x.e ELSE y.e}})

(***************************************************************************)
(* The arithmetic of PreciseTime and DeltaTime in doubles: an MJD2 is      *)
(* [day, frac] with an integer day and a double frac that is zero or       *)
(* positive.                                                               *)
(***************************************************************************)
\* the double with the mantissa hi * 2^28 + lo, of seven hexadecimal digits
\* each, and the exponent e
Double(hi, lo, e) == [m |-> BAdd(BShl(BOfInt(hi), 28), BOfInt(lo), 0), e |-> e]

\* the float literal 1e-12: 0x1.19799812dea11p-40 = 0x1197998_12dea11 * 2^-92
PicoSecond == Double(18446744, 19786257, -92)

\* DeltaTime("sec", val)._val
DeltaTime_f64(val) == FDivInt(val, 86400)

\* DeltaTime.get("sec")
DeltaTime_get_f64(self) == FMulInt(self, 86400)

\* micro / 1.e3 in place of micro / 1.e6
hmsm_to_days_f64Mut(hour, min, sec, micro) ==
  FDivInt(FAdd(FromInt(hour),
               FDivInt(FAdd(FromInt(min),
                            FDivInt(FAdd(FromInt(sec), FDivInt(micro, 1000)), 60)),
                       60)),
          24)

hmsm_to_days_f64(hour, min, sec, micro) ==
  FDivInt(FAdd(FromInt(hour),
               FDivInt(FAdd(FromInt(min),
                            FDivInt(FAdd(FromInt(sec), FDivInt(micro, 1000000)), 60)),
                       60)),
          24)

\* cal is a calendar payload with a whole day and a double sec
cal_to_mjd2_f64(cal) ==
  Only({Mjd2(DTrunc(jd_to_mjd(date_to_jd(cal.year, cal.month, DInt(cal.day)))),
             hmsm_to_days_f64(cal.hour, cal.min, ss,
                              FMulInt(FSub(cal.sec, FromInt(ss)), 1000000))) :
          ss \in {FInt(cal.sec)}})

\* mjd2[1] >= 0 in every modelled value
clean_mjd2_f64(mjd2) ==
  Only({Mjd2(mjd2.day + tmp, FSub(mjd2.frac, FromInt(tmp))) : tmp \in {FInt(mjd2.frac)}})

add_mjd2_f64(mjd2, day) == clean_mjd2_f64(Mjd2(mjd2.day, FAdd(mjd2.frac, day)))

\* for mjd21 not earlier than mjd22 and mjd21[1] >= mjd22[1]
diff_mjd2_f64(mjd21, mjd22) ==
  FAdd(FromInt(mjd21.day - mjd22.day), FSub(mjd21.frac, mjd22.frac))

(***************************************************************************)
(* Picosecond specification: a whole number of picoseconds, n * 1e-12 s,   *)
(* added to a PreciseTime at a whole day and written into the second field *)
(* of a calendar payload at midnight; then the difference to the           *)
(* PreciseTime at that whole day, in seconds.                              *)
(***************************************************************************)
MaxPico == 64

WholeDays == {[mjd2 |-> Mjd2(57022, FZero), cal |-> Cal(2015, 1, 1, 0, 0, FZero)],
              [mjd2 |-> Mjd2(57296, FZero), cal |-> Cal(2015, 10, 1, 0, 0, FZero)]}

InitPico ==
  /\ op = "input"
  /\ \E n \in 1..MaxPico, day \in WholeDays :
       arg = [n |-> n, sec |-> FMulInt(PicoSecond, n), mjd2 |-> day.mjd2, cal |-> day.cal]
  /\ ret = NoValue
  /\ pt = NoValue
  /\ env = UTC

\* time = PreciseTime("mjd2", [day, 0]); time2 = time + DeltaTime("sec", s);
\* (time2 - time).get("sec")
AddPico ==
  /\ op = "input"
  /\ op' = "__add__.__sub__"
  /\ pt' = [time |-> arg.mjd2,
            time2 |-> add_mjd2_f64(arg.mjd2, DeltaTime_f64(arg.sec))]
  /\ ret' = [dt |-> DeltaTime_get_f64(DeltaTime_f64(arg.sec)),
             dt2 |-> DeltaTime_get_f64(diff_mjd2_f64(pt'.time2, pt'.time))]
  /\ UNCHANGED <<arg, env>>

\* time = PreciseTime("cal", [y, m, d, 0, 0, 0]); time2 = PreciseTime("cal",
\* [y, m, d, 0, 0, s]); (time2 - time).get("sec")
CalPico ==
  /\ op = "input"
  /\ op' = "PreciseTime.__sub__"
  /\ pt' = [time |-> cal_to_mjd2_f64(arg.cal),
            time2 |-> cal_to_mjd2_f64([arg.cal EXCEPT !.sec = arg.sec])]
  /\ ret' = [dt |-> arg.sec,
             dt2 |-> DeltaTime_get_f64(diff_mjd2_f64(pt'.time2, pt'.time))]
  /\ UNCHANGED <<arg, env>>

NextPico == AddPico \/ CalPico

SpecPico == InitPico /\ [][NextPico]_vars

\* C25: for a PreciseTime a at a whole day, (a + DeltaTime("sec", s)) - a is
\* s within relative tolerance 1e-12, and PreciseTime(cal, [y, m, d, 0, 0, s])
\* - PreciseTime(cal, [y, m, d, 0, 0, 0]) is s within relative tolerance
\* 1e-12, in IEEE-754 double arithmetic, for s = 1e-12 s and its multiples.
C25_PicosecondResolution ==
  op \in {"__add__.__sub__", "PreciseTime.__sub__"} =>
    /\ FClose(ret.dt2, arg.sec)
    /\ FClose(ret.dt2, ret.dt)

\* 1e-12 s written into the second field of 2015-10-01 came back as the
\* double next to 1e-12, 0x1.19799812dea12p-40
C25_Witness ==
  /\ op = "PreciseTime.__sub__"
  /\ arg.n = 1 /\ arg.cal.month = 10
  /\ arg.sec = PicoSecond
  /\ pt.time2.day = 57296
  /\ ret.dt2 = Double(18446744, 19786258, -92)

=============================================================================
